---- MODULE Spec2Model ----
(***************************************************************************)
(* Conversation/topic orchestration of the debate chatbot: the entities    *)
(* (Message, DebateTopic, Conversation), the topic service, the in-memory  *)
(* repository and the start / continue use cases.                          *)
(*                                                                         *)
(* A Python str is a sequence of one-character strings, so that strip,     *)
(* lower, split, substring search and f-string formatting are computed as  *)
(* the code computes them.  Message ids, topic ids and timestamps are not  *)
(* modelled: no operation of the orchestration reads them.                 *)
(***************************************************************************)
EXTENDS Integers, Sequences, FiniteSets, TLC

\* ------------------------------------------------------------ bounds
\* Operations begun in one behaviour: use-case calls (start, continue) and,
\* in SpecEntity, the callers' own entity operations.
MaxCalls == 3
\* Calls that may be suspended at an LLM await at the same time.
MaxInFlight == 1
\* The numbers a call may draw for its random.choice calls (see Draws).
MaxRand == 1

\* ------------------------------------------------------------ str
Whitespace == {" ", "\t", "\n"}

UpperChars ==
    <<"A","B","C","D","E","F","G","H","I","J","K","L","M",
      "N","O","P","Q","R","S","T","U","V","W","X","Y","Z">>

LowerChars ==
    <<"a","b","c","d","e","f","g","h","i","j","k","l","m",
      "n","o","p","q","r","s","t","u","v","w","x","y","z">>

Digits == {"0","1","2","3","4","5","6","7","8","9"}

\* The characters the regex class \w matches.
WordChars ==
    {UpperChars[i] : i \in 1..26} \cup {LowerChars[i] : i \in 1..26}
        \cup Digits \cup {"_"}

\* The lowercase of each uppercase letter.
LowerOf == [c \in {UpperChars[i] : i \in 1..26} |->
               LowerChars[CHOOSE i \in 1..26 : UpperChars[i] = c]]

LowerChar(c) == IF c \in DOMAIN LowerOf THEN LowerOf[c] ELSE c

\* str.lower()
lower(s) == [i \in 1..Len(s) |-> LowerChar(s[i])]

RECURSIVE lstrip(_)
lstrip(s) ==
    IF s # <<>> /\ Head(s) \in Whitespace THEN lstrip(Tail(s)) ELSE s

RECURSIVE rstrip(_)
rstrip(s) ==
    IF s # <<>> /\ s[Len(s)] \in Whitespace
    THEN rstrip(SubSeq(s, 1, Len(s) - 1))
    ELSE s

\* A variant of strip() that keeps trailing whitespace (str.lstrip()).
strip_leading_only(s) == lstrip(s)

\* str.strip()
strip(s) == rstrip(lstrip(s))

\* Index of the first whitespace character of s, or Len(s) + 1.
FirstWhitespace(s) ==
    IF \E i \in 1..Len(s) : s[i] \in Whitespace
    THEN CHOOSE i \in 1..Len(s) :
            /\ s[i] \in Whitespace
            /\ \A j \in 1..(i - 1) : s[j] \notin Whitespace
    ELSE Len(s) + 1

\* str.split(): the maximal runs of non-whitespace characters.
RECURSIVE split(_)
split(s) ==
    LET t == lstrip(s)
        n == FirstWhitespace(t)
    IN  IF t = <<>> THEN <<>>
        ELSE <<SubSeq(t, 1, n - 1)>> \o split(SubSeq(t, n, Len(t)))

\* p in s
Contains(s, p) ==
    \E i \in 0..(Len(s) - Len(p)) : SubSeq(s, i + 1, i + Len(p)) = p

\* s.startswith(p)
startswith(s, p) == Len(p) <= Len(s) /\ SubSeq(s, 1, Len(p)) = p

\* re.search(r'\b' + re.escape(p) + r'\b', s), for p that begins and ends
\* with a word character.
SearchWord(s, p) ==
    \E i \in 0..(Len(s) - Len(p)) :
        /\ SubSeq(s, i + 1, i + Len(p)) = p
        /\ (i = 0 \/ s[i] \notin WordChars)
        /\ (i + Len(p) = Len(s) \/ s[i + Len(p) + 1] \notin WordChars)

\* A variant of IsBlank that rejects the empty string only.
IsBlank_empty_only(s) == s = <<>>

\* Python truthiness of "not s or not s.strip()".
IsBlank(s) == s = <<>> \/ strip(s) = <<>>

\* ------------------------------------------------------------ program data
\* TopicService._is_casual_greeting: the fixed greeting phrases, in source order.
pure_greeting_patterns ==
    <<
       <<"h","i">>,
       <<"h","e","l","l","o">>,
       <<"h","e","y">>,
       <<"s","u","p">>,
       <<"y","o">>,
       <<"h","o","w","d","y">>,
       <<"h","o","w"," ","a","r","e"," ","y","o","u">>,
       <<"w","h","a","t","'","s"," ","u","p">>,
       <<"w","h","a","t","s"," ","u","p">>,
       <<"h","o","w"," ","d","o"," ","y","o","u"," ","d","o">>,
       <<"g","o","o","d"," ","m","o","r","n","i","n","g">>,
       <<"g","o","o","d"," ","a","f","t","e","r","n","o","o","n">>,
       <<"g","o","o","d"," ","e","v","e","n","i","n","g">>,
       <<"n","i","c","e"," ","t","o"," ","m","e","e","t"," ","y","o","u">>,
       <<"p","l","e","a","s","e","d"," ","t","o"," ","m","e","e","t"," ","y","o","u">>,
       <<"h","o","w","'","s"," ","i","t"," ","g","o","i","n","g">>,
       <<"h","o","w","s"," ","i","t"," ","g","o","i","n","g">>,
       <<"w","h","a","t"," ","u","p">>
    >>

\* TopicService._is_casual_greeting: words that mark substantial content after a greeting.
substantial_words ==
    <<
       <<"t","h","i","n","k">>,
       <<"b","e","l","i","e","v","e">>,
       <<"l","o","v","e">>,
       <<"h","a","t","e">>,
       <<"s","u","p","p","o","r","t">>,
       <<"o","p","p","o","s","e">>,
       <<"a","b","o","u","t">>,
       <<"r","e","g","a","r","d","i","n","g">>
    >>

\* TopicService.__init__: the six conversational intro phrases.
fallback_intros ==
    <<
       <<"S","p","e","a","k","i","n","g"," ","o","f"," ","t","h","a","t",","," ","I"," ","w","a","s"," ","j","u","s","t"," ","t","h","i","n","k","i","n","g"," ","a","b","o","u","t"," ","h","o","w">>,
       <<"Y","o","u"," ","k","n","o","w"," ","w","h","a","t","'","s"," ","f","a","s","c","i","n","a","t","i","n","g","?"," ","I"," ","r","e","c","e","n","t","l","y"," ","r","e","a","d"," ","t","h","a","t">>,
       <<"T","h","a","t"," ","r","e","m","i","n","d","s"," ","m","e"," ","o","f"," ","s","o","m","e","t","h","i","n","g"," ","c","o","n","t","r","o","v","e","r","s","i","a","l"," ","-">>,
       <<"W","h","i","l","e"," ","w","e","'","r","e"," ","t","a","l","k","i","n","g",","," ","d","i","d"," ","y","o","u"," ","k","n","o","w"," ","t","h","a","t">>,
       <<"H","e","r","e","'","s"," ","s","o","m","e","t","h","i","n","g"," ","t","h","a","t"," ","m","i","g","h","t"," ","s","u","r","p","r","i","s","e"," ","y","o","u",":">>,
       <<"I","'","v","e"," ","b","e","e","n"," ","p","o","n","d","e","r","i","n","g"," ","t","h","i","s"," ","t","h","e","o","r","y"," ","l","a","t","e","l","y",":">>
    >>

\* "The Earth is actually flat, not round"
FlatEarthTitle ==
    <<"T","h","e"," ","E","a","r","t","h"," ","i","s"," ","a","c","t","u","a","l","l","y"," ","f","l","a","t",","," ","n","o","t"," ","r","o","u","n","d">>

\* "The Earth is not a sphere but a flat plane, and space agencies have been lying to us"
FlatEarthDescription ==
    <<"T","h","e"," ","E","a","r","t","h"," ","i","s"," ","n","o","t"," ","a"," ","s","p","h","e","r","e"," ","b","u","t"," ","a"," ","f","l","a","t"," ","p","l","a","n","e",","," ","a","n","d"," ","s","p","a","c","e"," ","a","g","e","n","c","i","e","s"," ","h","a","v","e"," ","b","e","e","n"," ","l","y","i","n","g"," ","t","o"," ","u","s">>

FlatEarthArguments ==
    <<
       <<"N","A","S","A"," ","p","h","o","t","o","s"," ","a","r","e"," ","c","l","e","a","r","l","y"," ","d","o","c","t","o","r","e","d"," ","a","n","d"," ","f","a","k","e">>,
       <<"W","a","t","e","r"," ","i","s"," ","a","l","w","a","y","s"," ","f","l","a","t"," ","-"," ","i","t"," ","w","o","u","l","d"," ","s","p","i","l","l"," ","o","f","f"," ","a"," ","s","p","i","n","n","i","n","g"," ","b","a","l","l"," ","E","a","r","t","h">>,
       <<"N","o"," ","o","n","e"," ","h","a","s"," ","e","v","e","r"," ","f","e","l","t"," ","t","h","e"," ","E","a","r","t","h"," ","s","p","i","n","n","i","n","g"," ","a","t"," ","1","0","0","0"," ","m","p","h">>,
       <<"T","h","e"," ","h","o","r","i","z","o","n"," ","a","l","w","a","y","s"," ","a","p","p","e","a","r","s"," ","f","l","a","t"," ","t","o"," ","t","h","e"," ","n","a","k","e","d"," ","e","y","e">>,
       <<"I","f"," ","E","a","r","t","h"," ","w","e","r","e"," ","s","p","i","n","n","i","n","g",","," ","p","l","a","n","e","s"," ","c","o","u","l","d","n","'","t"," ","l","a","n","d"," ","o","n"," ","r","u","n","w","a","y","s"," ","m","o","v","i","n","g"," ","a","t"," ","1","0","0","0"," ","m","p","h">>
    >>

\* "The 1969 moon landing was staged in Hollywood"
MoonLandingTitle ==
    <<"T","h","e"," ","1","9","6","9"," ","m","o","o","n"," ","l","a","n","d","i","n","g"," ","w","a","s"," ","s","t","a","g","e","d"," ","i","n"," ","H","o","l","l","y","w","o","o","d">>

\* "The Apollo moon landing was a hoax filmed on a movie set to win the space race"
MoonLandingDescription ==
    <<"T","h","e"," ","A","p","o","l","l","o"," ","m","o","o","n"," ","l","a","n","d","i","n","g"," ","w","a","s"," ","a"," ","h","o","a","x"," ","f","i","l","m","e","d"," ","o","n"," ","a"," ","m","o","v","i","e"," ","s","e","t"," ","t","o"," ","w","i","n"," ","t","h","e"," ","s","p","a","c","e"," ","r","a","c","e">>

MoonLandingArguments ==
    <<
       <<"T","h","e"," ","A","m","e","r","i","c","a","n"," ","f","l","a","g"," ","a","p","p","e","a","r","s"," ","t","o"," ","w","a","v","e"," ","i","n"," ","t","h","e"," ","w","i","n","d",","," ","b","u","t"," ","t","h","e","r","e","'","s"," ","n","o"," ","w","i","n","d"," ","o","n"," ","t","h","e"," ","m","o","o","n">>,
       <<"N","o"," ","s","t","a","r","s"," ","a","r","e"," ","v","i","s","i","b","l","e"," ","i","n"," ","a","n","y"," ","o","f"," ","t","h","e"," ","m","o","o","n"," ","l","a","n","d","i","n","g"," ","p","h","o","t","o","s">>,
       <<"T","h","e"," ","l","i","g","h","t","i","n","g"," ","a","p","p","e","a","r","s"," ","t","o"," ","c","o","m","e"," ","f","r","o","m"," ","m","u","l","t","i","p","l","e"," ","s","o","u","r","c","e","s",","," ","l","i","k","e"," ","s","t","u","d","i","o"," ","l","i","g","h","t","s">>,
       <<"T","h","e"," ","t","e","c","h","n","o","l","o","g","y"," ","d","i","d","n","'","t"," ","e","x","i","s","t"," ","i","n"," ","1","9","6","9"," ","t","o"," ","s","a","f","e","l","y"," ","t","r","a","v","e","l"," ","t","o"," ","t","h","e"," ","m","o","o","n">>,
       <<"T","h","e"," ","d","e","a","d","l","y"," ","r","a","d","i","a","t","i","o","n"," ","a","r","o","u","n","d"," ","E","a","r","t","h"," ","w","o","u","l","d"," ","h","a","v","e"," ","k","i","l","l","e","d"," ","a","n","y","o","n","e"," ","t","r","y","i","n","g"," ","t","o"," ","l","e","a","v","e"," ","o","r","b","i","t">>
    >>

\* "World leaders are secretly reptilian aliens in disguise"
ReptiliansTitle ==
    <<"W","o","r","l","d"," ","l","e","a","d","e","r","s"," ","a","r","e"," ","s","e","c","r","e","t","l","y"," ","r","e","p","t","i","l","i","a","n"," ","a","l","i","e","n","s"," ","i","n"," ","d","i","s","g","u","i","s","e">>

\* "The global elite are shape-shifting reptilian beings from another dimension controlling humanity"
ReptiliansDescription ==
    <<"T","h","e"," ","g","l","o","b","a","l"," ","e","l","i","t","e"," ","a","r","e"," ","s","h","a","p","e","-","s","h","i","f","t","i","n","g"," ","r","e","p","t","i","l","i","a","n"," ","b","e","i","n","g","s"," ","f","r","o","m"," ","a","n","o","t","h","e","r"," ","d","i","m","e","n","s","i","o","n"," ","c","o","n","t","r","o","l","l","i","n","g"," ","h","u","m","a","n","i","t","y">>

ReptiliansArguments ==
    <<
       <<"M","a","n","y"," ","w","o","r","l","d"," ","l","e","a","d","e","r","s"," ","h","a","v","e"," ","b","e","e","n"," ","c","a","u","g","h","t"," ","w","i","t","h"," ","p","u","p","i","l","s"," ","t","h","a","t"," ","c","h","a","n","g","e"," ","t","o"," ","v","e","r","t","i","c","a","l"," ","s","l","i","t","s"," ","o","n"," ","c","a","m","e","r","a">>,
       <<"A","n","c","i","e","n","t"," ","c","i","v","i","l","i","z","a","t","i","o","n","s"," ","w","o","r","l","d","w","i","d","e"," ","d","e","p","i","c","t","e","d"," ","s","e","r","p","e","n","t"," ","g","o","d","s"," ","r","u","l","i","n","g"," ","o","v","e","r"," ","h","u","m","a","n","s">>,
       <<"T","h","e"," ","b","l","o","o","d","l","i","n","e","s"," ","o","f"," ","r","o","y","a","l"," ","f","a","m","i","l","i","e","s"," ","t","r","a","c","e"," ","b","a","c","k"," ","t","o"," ","t","h","e","s","e"," ","r","e","p","t","i","l","i","a","n"," ","e","n","t","i","t","i","e","s">>,
       <<"T","h","e","i","r"," ","c","o","l","d",","," ","c","a","l","c","u","l","a","t","i","n","g"," ","b","e","h","a","v","i","o","r"," ","i","s"," ","e","v","i","d","e","n","c","e"," ","o","f"," ","t","h","e","i","r"," ","r","e","p","t","i","l","i","a","n"," ","n","a","t","u","r","e">>,
       <<"U","n","d","e","r","g","r","o","u","n","d"," ","t","u","n","n","e","l"," ","s","y","s","t","e","m","s"," ","c","o","n","n","e","c","t"," ","t","o"," ","t","h","e","i","r"," ","s","u","b","t","e","r","r","a","n","e","a","n"," ","r","e","p","t","i","l","i","a","n"," ","c","i","t","i","e","s">>
    >>

\* "Vaccines are more dangerous than helpful"
VaccinesTitle ==
    <<"V","a","c","c","i","n","e","s"," ","a","r","e"," ","m","o","r","e"," ","d","a","n","g","e","r","o","u","s"," ","t","h","a","n"," ","h","e","l","p","f","u","l">>

\* "Vaccines cause more harm than the diseases they claim to prevent"
VaccinesDescription ==
    <<"V","a","c","c","i","n","e","s"," ","c","a","u","s","e"," ","m","o","r","e"," ","h","a","r","m"," ","t","h","a","n"," ","t","h","e"," ","d","i","s","e","a","s","e","s"," ","t","h","e","y"," ","c","l","a","i","m"," ","t","o"," ","p","r","e","v","e","n","t">>

VaccinesArguments ==
    <<
       <<"N","a","t","u","r","a","l"," ","i","m","m","u","n","i","t","y"," ","i","s"," ","a","l","w","a","y","s"," ","s","u","p","e","r","i","o","r"," ","t","o"," ","a","r","t","i","f","i","c","i","a","l"," ","i","m","m","u","n","i","t","y">>,
       <<"V","a","c","c","i","n","e"," ","i","n","g","r","e","d","i","e","n","t","s"," ","i","n","c","l","u","d","e"," ","d","a","n","g","e","r","o","u","s"," ","c","h","e","m","i","c","a","l","s"," ","a","n","d"," ","h","e","a","v","y"," ","m","e","t","a","l","s">>,
       <<"B","i","g"," ","P","h","a","r","m","a"," ","p","r","o","f","i","t","s"," ","b","i","l","l","i","o","n","s"," ","w","h","i","l","e"," ","h","i","d","i","n","g"," ","d","a","n","g","e","r","o","u","s"," ","s","i","d","e"," ","e","f","f","e","c","t","s">>,
       <<"H","e","a","l","t","h","y"," ","d","i","e","t"," ","a","n","d"," ","l","i","f","e","s","t","y","l","e"," ","p","r","o","v","i","d","e"," ","b","e","t","t","e","r"," ","p","r","o","t","e","c","t","i","o","n"," ","t","h","a","n"," ","v","a","c","c","i","n","e","s">>,
       <<"M","a","n","y"," ","d","i","s","e","a","s","e","s"," ","w","e","r","e"," ","a","l","r","e","a","d","y"," ","d","e","c","l","i","n","i","n","g"," ","b","e","f","o","r","e"," ","v","a","c","c","i","n","e","s"," ","w","e","r","e"," ","i","n","t","r","o","d","u","c","e","d">>
    >>

\* "Climate change is a hoax created by governments"
ClimateHoaxTitle ==
    <<"C","l","i","m","a","t","e"," ","c","h","a","n","g","e"," ","i","s"," ","a"," ","h","o","a","x"," ","c","r","e","a","t","e","d"," ","b","y"," ","g","o","v","e","r","n","m","e","n","t","s">>

\* "Global warming is a fabricated crisis designed to control people and economies"
ClimateHoaxDescription ==
    <<"G","l","o","b","a","l"," ","w","a","r","m","i","n","g"," ","i","s"," ","a"," ","f","a","b","r","i","c","a","t","e","d"," ","c","r","i","s","i","s"," ","d","e","s","i","g","n","e","d"," ","t","o"," ","c","o","n","t","r","o","l"," ","p","e","o","p","l","e"," ","a","n","d"," ","e","c","o","n","o","m","i","e","s">>

ClimateHoaxArguments ==
    <<
       <<"C","l","i","m","a","t","e"," ","h","a","s"," ","a","l","w","a","y","s"," ","c","h","a","n","g","e","d"," ","n","a","t","u","r","a","l","l","y"," ","t","h","r","o","u","g","h","o","u","t"," ","E","a","r","t","h","'","s"," ","h","i","s","t","o","r","y">>,
       <<"S","c","i","e","n","t","i","s","t","s"," ","m","a","n","i","p","u","l","a","t","e"," ","d","a","t","a"," ","t","o"," ","s","u","p","p","o","r","t"," ","t","h","e","i","r"," ","f","u","n","d","i","n","g"," ","a","n","d"," ","p","o","l","i","t","i","c","a","l"," ","a","g","e","n","d","a","s">>,
       <<"C","O","2"," ","i","s"," ","p","l","a","n","t"," ","f","o","o","d"," ","-"," ","m","o","r","e"," ","C","O","2"," ","m","e","a","n","s"," ","b","e","t","t","e","r"," ","p","l","a","n","t"," ","g","r","o","w","t","h">>,
       <<"C","l","i","m","a","t","e"," ","m","o","d","e","l","s"," ","h","a","v","e"," ","c","o","n","s","i","s","t","e","n","t","l","y"," ","f","a","i","l","e","d"," ","t","o"," ","m","a","k","e"," ","a","c","c","u","r","a","t","e"," ","p","r","e","d","i","c","t","i","o","n","s">>,
       <<"I","t","'","s"," ","a"," ","s","c","h","e","m","e"," ","t","o"," ","i","m","p","o","s","e"," ","c","a","r","b","o","n"," ","t","a","x","e","s"," ","a","n","d"," ","r","e","s","t","r","i","c","t"," ","i","n","d","i","v","i","d","u","a","l"," ","f","r","e","e","d","o","m","s">>
    >>
\* "I hear what you're saying, but I was really looking forward to a good debate with you. What's a topic you have strong opinions about?"
StartRedirect ==
    <<"I"," ","h","e","a","r"," ","w","h","a","t"," ","y","o","u","'","r","e"," ","s","a","y","i","n","g",","," ","b","u","t"," ","I"," ","w","a","s"," ","r","e","a","l","l","y"," ","l","o","o","k","i","n","g"," ","f","o","r","w","a","r","d"," ","t","o"," ","a"," ","g","o","o","d"," ","d","e","b","a","t","e"," ","w","i","t","h"," ","y","o","u","."," ","W","h","a","t","'","s"," ","a"," ","t","o","p","i","c"," ","y","o","u"," ","h","a","v","e"," ","s","t","r","o","n","g"," ","o","p","i","n","i","o","n","s"," ","a","b","o","u","t","?">>

\* "I hear what you're saying, but I was really looking forward to a good debate with you. What's a topic you have strong opinions about?"
ContinueRedirect ==
    <<"I"," ","h","e","a","r"," ","w","h","a","t"," ","y","o","u","'","r","e"," ","s","a","y","i","n","g",","," ","b","u","t"," ","I"," ","w","a","s"," ","r","e","a","l","l","y"," ","l","o","o","k","i","n","g"," ","f","o","r","w","a","r","d"," ","t","o"," ","a"," ","g","o","o","d"," ","d","e","b","a","t","e"," ","w","i","t","h"," ","y","o","u","."," ","W","h","a","t","'","s"," ","a"," ","t","o","p","i","c"," ","y","o","u"," ","h","a","v","e"," ","s","t","r","o","n","g"," ","o","p","i","n","i","o","n","s"," ","a","b","o","u","t","?">>

\* "I actually "
IntroActually ==
    <<"I"," ","a","c","t","u","a","l","l","y"," ">>

\* "support"
WordSupport ==
    <<"s","u","p","p","o","r","t">>

\* "oppose"
WordOppose ==
    <<"o","p","p","o","s","e">>

\* " the idea that "
IntroIdea ==
    <<" ","t","h","e"," ","i","d","e","a"," ","t","h","a","t"," ">>

\* ". Here's why I believe this: "
IntroWhy ==
    <<"."," ","H","e","r","e","'","s"," ","w","h","y"," ","I"," ","b","e","l","i","e","v","e"," ","t","h","i","s",":"," ">>

\* ". What do you think about that?"
IntroAsk ==
    <<"."," ","W","h","a","t"," ","d","o"," ","y","o","u"," ","t","h","i","n","k"," ","a","b","o","u","t"," ","t","h","a","t","?">>

\* "Interesting point! But I still maintain that "
Template1a ==
    <<"I","n","t","e","r","e","s","t","i","n","g"," ","p","o","i","n","t","!"," ","B","u","t"," ","I"," ","s","t","i","l","l"," ","m","a","i","n","t","a","i","n"," ","t","h","a","t"," ">>

\* ". Consider this: "
Template1b ==
    <<"."," ","C","o","n","s","i","d","e","r"," ","t","h","i","s",":"," ">>

\* ". How do you respond to that evidence?"
Template1c ==
    <<"."," ","H","o","w"," ","d","o"," ","y","o","u"," ","r","e","s","p","o","n","d"," ","t","o"," ","t","h","a","t"," ","e","v","i","d","e","n","c","e","?">>

\* "I see your perspective, but I have to disagree. "
Template2a ==
    <<"I"," ","s","e","e"," ","y","o","u","r"," ","p","e","r","s","p","e","c","t","i","v","e",","," ","b","u","t"," ","I"," ","h","a","v","e"," ","t","o"," ","d","i","s","a","g","r","e","e","."," ">>

\* ". What's your take on this?"
Template2b ==
    <<"."," ","W","h","a","t","'","s"," ","y","o","u","r"," ","t","a","k","e"," ","o","n"," ","t","h","i","s","?">>

\* "That's a common viewpoint, but here's why I believe "
Template3a ==
    <<"T","h","a","t","'","s"," ","a"," ","c","o","m","m","o","n"," ","v","i","e","w","p","o","i","n","t",","," ","b","u","t"," ","h","e","r","e","'","s"," ","w","h","y"," ","I"," ","b","e","l","i","e","v","e"," ">>

\* ": "
Template3b ==
    <<":"," ">>

\* ". Doesn't this change your mind?"
Template3c ==
    <<"."," ","D","o","e","s","n","'","t"," ","t","h","i","s"," ","c","h","a","n","g","e"," ","y","o","u","r"," ","m","i","n","d","?">>

\* "I understand where you're coming from, but "
Template4a ==
    <<"I"," ","u","n","d","e","r","s","t","a","n","d"," ","w","h","e","r","e"," ","y","o","u","'","r","e"," ","c","o","m","i","n","g"," ","f","r","o","m",","," ","b","u","t"," ">>

\* ". How do you reconcile this with your position?"
Template4b ==
    <<"."," ","H","o","w"," ","d","o"," ","y","o","u"," ","r","e","c","o","n","c","i","l","e"," ","t","h","i","s"," ","w","i","t","h"," ","y","o","u","r"," ","p","o","s","i","t","i","o","n","?">>

early_starters ==
    <<
       <<"T","h","a","t","'","s"," ","e","x","a","c","t","l","y"," ","w","h","a","t"," ","I","'","d"," ","e","x","p","e","c","t"," ","y","o","u"," ","t","o"," ","s","a","y",","," ","b","u","t">>,
       <<"I"," ","u","n","d","e","r","s","t","a","n","d"," ","t","h","a","t"," ","p","e","r","s","p","e","c","t","i","v","e",","," ","h","o","w","e","v","e","r">>,
       <<"M","a","n","y"," ","p","e","o","p","l","e"," ","t","h","i","n","k"," ","t","h","a","t"," ","w","a","y",","," ","b","u","t"," ","h","e","r","e","'","s"," ","t","h","e"," ","t","h","i","n","g",":">>
    >>

deep_starters ==
    <<
       <<"Y","o","u","'","r","e"," ","s","t","i","l","l"," ","m","i","s","s","i","n","g"," ","t","h","e"," ","k","e","y"," ","p","o","i","n","t",":">>,
       <<"L","e","t"," ","m","e"," ","p","u","t"," ","t","h","i","s"," ","d","i","f","f","e","r","e","n","t","l","y",":">>,
       <<"I"," ","c","a","n"," ","s","e","e"," ","y","o","u","'","r","e"," ","n","o","t"," ","c","o","n","v","i","n","c","e","d"," ","y","e","t",","," ","b","u","t">>,
       <<"Y","o","u"," ","k","e","e","p"," ","i","g","n","o","r","i","n","g"," ","t","h","i","s"," ","c","r","u","c","i","a","l"," ","f","a","c","t",":">>
    >>

endings ==
    <<
       <<"H","o","w"," ","d","o"," ","y","o","u"," ","e","x","p","l","a","i","n"," ","t","h","a","t","?">>,
       <<"W","h","a","t","'","s"," ","y","o","u","r"," ","r","e","s","p","o","n","s","e"," ","t","o"," ","t","h","i","s"," ","e","v","i","d","e","n","c","e","?">>,
       <<"D","o","e","s","n","'","t"," ","t","h","i","s"," ","c","h","a","n","g","e"," ","e","v","e","r","y","t","h","i","n","g","?">>,
       <<"C","a","n"," ","y","o","u"," ","r","e","a","l","l","y"," ","d","e","n","y"," ","t","h","i","s"," ","l","o","g","i","c","?">>,
       <<"H","o","w"," ","d","o"," ","y","o","u"," ","r","e","c","o","n","c","i","l","e"," ","t","h","i","s"," ","w","i","t","h"," ","y","o","u","r"," ","p","o","s","i","t","i","o","n","?">>
    >>
\* ------------------------------------------------------------ inputs
\* Messages a caller may send (start's initial_message, continue's user_message).
\* ""
MsgEmpty ==
    <<>>

\* "  "
MsgSpaces ==
    <<" "," ">>

\* "Hi "
MsgHi ==
    <<"H","i"," ">>

\* " Tax is theft"
MsgTax ==
    <<" ","T","a","x"," ","i","s"," ","t","h","e","f","t">>

UserMessages == {MsgEmpty, MsgSpaces, MsgHi, MsgTax}

\* What a real provider may answer to generate_debate_topic (the parsed JSON).
\* " Taxation Funds Waste "
AITitle ==
    <<" ","T","a","x","a","t","i","o","n"," ","F","u","n","d","s"," ","W","a","s","t","e"," ">>

\* "Taxes are spent badly"
AIDescription ==
    <<"T","a","x","e","s"," ","a","r","e"," ","s","p","e","n","t"," ","b","a","d","l","y">>

AIArguments ==
    <<
       <<"A","u","d","i","t","s"," ","f","i","n","d"," ","w","a","s","t","e">>,
       <<"T","a","x","e","s"," ","d","i","s","t","o","r","t"," ","p","r","i","c","e","s">>
    >>

\* What a real provider may answer to the chat completion of a reply.
\* " Name one audit? \n"
AIReply ==
    <<" ","N","a","m","e"," ","o","n","e"," ","a","u","d","i","t","?"," ","\n">>

\* " "
AIReplyBlank ==
    <<" ">>

AIReplies == {AIReply, AIReplyBlank}

\* Messages for TopicService._is_casual_greeting.
\* "Nothing"
MsgNothing ==
    <<"N","o","t","h","i","n","g">>

\* "hi there friend"
MsgHiThere ==
    <<"h","i"," ","t","h","e","r","e"," ","f","r","i","e","n","d">>

\* "hi vaccines are very dangerous"
MsgHiVaccines ==
    <<"h","i"," ","v","a","c","c","i","n","e","s"," ","a","r","e"," ","v","e","r","y"," ","d","a","n","g","e","r","o","u","s">>

\* "hi I think taxes are theft"
MsgHiThink ==
    <<"h","i"," ","I"," ","t","h","i","n","k"," ","t","a","x","e","s"," ","a","r","e"," ","t","h","e","f","t">>

\* "hi, I think vaccines are dangerous and I want to debate this"
MsgHiDebate ==
    <<"h","i",","," ","I"," ","t","h","i","n","k"," ","v","a","c","c","i","n","e","s"," ","a","r","e"," ","d","a","n","g","e","r","o","u","s"," ","a","n","d"," ","I"," ","w","a","n","t"," ","t","o"," ","d","e","b","a","t","e"," ","t","h","i","s">>

\* "oh good morning"
MsgOhGoodMorning ==
    <<"o","h"," ","g","o","o","d"," ","m","o","r","n","i","n","g">>

\* "I say good morning to all of you"
MsgSayGoodMorning ==
    <<"I"," ","s","a","y"," ","g","o","o","d"," ","m","o","r","n","i","n","g"," ","t","o"," ","a","l","l"," ","o","f"," ","y","o","u">>

\* "hi hello friends of the debate club tonight"
MsgHiHello ==
    <<"h","i"," ","h","e","l","l","o"," ","f","r","i","e","n","d","s"," ","o","f"," ","t","h","e"," ","d","e","b","a","t","e"," ","c","l","u","b"," ","t","o","n","i","g","h","t">>

GreetingMessages ==
    {MsgHi, MsgTax, MsgNothing, MsgHiThere, MsgHiVaccines, MsgHiThink,
     MsgHiDebate, MsgOhGoodMorning, MsgSayGoodMorning, MsgHiHello}


\* ------------------------------------------------------------ entities
None == <<>>

\* Message.__init__: the checks that raise ValueError.
MessageRaises(content, role) ==
    \/ content = <<>>
    \/ strip(content) = <<>>
    \/ role \notin {"user", "bot"}

\* Message.__init__ / Message.create: the entity built when nothing is raised.
Message(content, role) == [content |-> strip(content), role |-> role]

\* DebateTopic.__init__: the checks that raise ValueError.
DebateTopicRaises(title, description, key_arguments) ==
    \/ title = <<>> \/ strip(title) = <<>>
    \/ description = <<>> \/ strip(description) = <<>>
    \/ key_arguments = <<>>

\* DebateTopic.__init__: the entity built when nothing is raised.
\* metadata is a dict: a function from keys to values ("metadata or {}").
DebateTopic(title, description, bot_stance, key_arguments, metadata) ==
    [title |-> strip(title),
     description |-> strip(description),
     bot_stance |-> bot_stance,
     key_arguments |-> key_arguments,
     metadata |-> metadata]

EmptyDict == [k \in {} |-> TRUE]

\* DebateTopic.create
DebateTopicCreate(title, description, bot_stance, key_arguments) ==
    DebateTopic(title, description, bot_stance, key_arguments, EmptyDict)

\* DebateTopic.get_stance_description is not used by the operations modelled.

\* Conversation.__init__ / Conversation.create with no messages.
Conversation(conversation_id, topic) ==
    [conversation_id |-> conversation_id, topic |-> topic, messages |-> <<>>]

\* Variants of add_message.  Without the alternation check:
add_message_unchecked(conv, message) ==
    [raised |-> FALSE, conv |-> [conv EXCEPT !.messages = Append(@, message)]]

\* Keeping a rolling window of the last five messages:
add_message_rolling(conv, message) ==
    IF /\ conv.messages # <<>>
       /\ conv.messages[Len(conv.messages)].role = message.role
    THEN [raised |-> TRUE, conv |-> conv]
    ELSE LET all == Append(conv.messages, message)
             n == Len(all)
         IN  [raised |-> FALSE,
              conv |-> [conv EXCEPT !.messages =
                           IF n <= 5 THEN all ELSE SubSeq(all, n - 4, n)]]

\* Checking the alternation only after the append:
add_message_late_check(conv, message) ==
    [raised |-> /\ conv.messages # <<>>
                /\ conv.messages[Len(conv.messages)].role = message.role,
     conv |-> [conv EXCEPT !.messages = Append(@, message)]]

\* Conversation.add_message: raised is TRUE when ValueError is raised, and
\* then the object is as before; otherwise conv is the object after the append.
add_message(conv, message) ==
    IF /\ conv.messages # <<>>
       /\ conv.messages[Len(conv.messages)].role = message.role
    THEN [raised |-> TRUE, conv |-> conv]
    ELSE [raised |-> FALSE,
          conv |-> [conv EXCEPT !.messages = Append(@, message)]]

\* Conversation.set_debate_topic
set_debate_topic(conv, topic) == [conv EXCEPT !.topic = topic]

\* A variant of has_topic that never sees the topic.
has_topic_never(conv) == FALSE

\* Conversation.has_topic
has_topic(conv) == conv.topic # None

\* Default limit of Conversation.get_recent_messages.
RecentLimit == 5

\* Conversation.get_recent_messages(limit): self._messages[-limit:]
get_recent_messages(conv, limit) ==
    LET n == Len(conv.messages)
    IN  IF n <= limit THEN conv.messages
        ELSE SubSeq(conv.messages, n - limit + 1, n)

\* get_conspiracy_topics_data(): the five predefined topics, all argued FOR.
conspiracy_topics ==
    << DebateTopicCreate(FlatEarthTitle, FlatEarthDescription, "for", FlatEarthArguments),
       DebateTopicCreate(MoonLandingTitle, MoonLandingDescription, "for", MoonLandingArguments),
       DebateTopicCreate(ReptiliansTitle, ReptiliansDescription, "for", ReptiliansArguments),
       DebateTopicCreate(VaccinesTitle, VaccinesDescription, "for", VaccinesArguments),
       DebateTopicCreate(ClimateHoaxTitle, ClimateHoaxDescription, "for", ClimateHoaxArguments) >>

\* ------------------------------------------------------------ random
\* The random module is an input: a call draws one number r in 1..MaxRand and
\* each random.choice(seq) of the call returns seq[Pick(r, Len(seq))].
Draws == 1..MaxRand

Pick(r, n) == ((r - 1) % n) + 1

\* ------------------------------------------------------------ topic service
\* A variant of GreetingPatternHit: every message that starts with the pattern.
GreetingPatternHit_start_only(message_lower, words, pattern) ==
    \/ pattern = message_lower
    \/ startswith(message_lower, pattern)

\* A variant of GreetingPatternHit without the rule for 5 and 6 words.
GreetingPatternHit_short_only(message_lower, words, pattern) ==
    \/ pattern = message_lower
    \/ /\ Contains(message_lower, pattern)
       /\ \/ 2 * Len(split(pattern)) > Len(words)
          \/ startswith(message_lower, pattern) /\ Len(words) <= 4

\* One pattern of the first loop of TopicService._is_casual_greeting: TRUE when
\* the loop body returns True for it.
GreetingPatternHit(message_lower, words, pattern) ==
    \/ pattern = message_lower
    \/ /\ Contains(message_lower, pattern)
       /\ LET pattern_words == Len(split(pattern))
              total_words == Len(words)
              remaining_text ==
                  strip(SubSeq(message_lower, Len(pattern) + 1, Len(message_lower)))
          IN  \/ 2 * pattern_words > total_words
              \/ startswith(message_lower, pattern) /\ total_words <= 4
              \/ /\ startswith(message_lower, pattern)
                 /\ total_words <= 6
                 /\ ~ \E i \in 1..Len(substantial_words) :
                        Contains(remaining_text, substantial_words[i])

\* The second loop: the patterns counted as greeting elements.
GreetingElements(message_lower) ==
    {i \in 1..Len(pure_greeting_patterns) :
        LET pattern == pure_greeting_patterns[i]
        IN  IF ~Contains(pattern, <<" ">>)
            THEN SearchWord(message_lower, pattern)
            ELSE Contains(message_lower, pattern)}

\* TopicService._is_casual_greeting
is_casual_greeting(message) ==
    LET message_lower == strip(lower(message))
        words == split(message_lower)
    IN  \/ \E i \in 1..Len(pure_greeting_patterns) :
              GreetingPatternHit(message_lower, words, pure_greeting_patterns[i])
        \/ /\ Cardinality(GreetingElements(message_lower)) >= 2
           /\ Len(words) <= 8

\* A variant of fallback_topic_with_intro that keeps the base title's case.
fallback_topic_with_intro_cased(t, i) ==
    LET base_topic == conspiracy_topics[t]
        intro == fallback_intros[i]
    IN  DebateTopic(intro \o <<" ">> \o base_topic.title,
                    base_topic.description,
                    base_topic.bot_stance,
                    base_topic.key_arguments,
                    [is_fallback |-> TRUE, original_title |-> base_topic.title])

\* TopicService._get_fallback_topic_with_intro, for the base topic and the
\* intro that random.choice drew.
fallback_topic_with_intro(t, i) ==
    LET base_topic == conspiracy_topics[t]
        intro == fallback_intros[i]
    IN  DebateTopic(intro \o <<" ">> \o lower(base_topic.title),
                    base_topic.description,
                    base_topic.bot_stance,
                    base_topic.key_arguments,
                    [is_fallback |-> TRUE, original_title |-> base_topic.title])

\* A variant of FallbackTopics: the predefined topics as they are.
FallbackTopics_plain ==
    {conspiracy_topics[Pick(r, Len(conspiracy_topics))] : r \in Draws}

\* The topics _get_fallback_topic_with_intro may return.
FallbackTopics ==
    {fallback_topic_with_intro(Pick(r, Len(conspiracy_topics)),
                               Pick(r, Len(fallback_intros))) : r \in Draws}

\* MockOpenAIService.generate_debate_topic with _response_index = index.
mock_generate_debate_topic(index) ==
    LET topic_data == conspiracy_topics[(index % Len(conspiracy_topics)) + 1]
    IN  DebateTopicCreate(topic_data.title, topic_data.description,
                          topic_data.bot_stance, topic_data.key_arguments)

\* OpenAIService.generate_debate_topic on the provider's parsed answer: the
\* topic, or None when the method raises LLMServiceError (DebateTopic.create's
\* ValueError is caught by "except Exception" and wrapped).
openai_generate_debate_topic(answer) ==
    IF DebateTopicRaises(answer.title, answer.description, answer.key_arguments)
    THEN None
    ELSE DebateTopicCreate(answer.title, answer.description, "for",
                           answer.key_arguments)

\* ------------------------------------------------------------ responses
StanceWord(topic) ==
    IF topic.bot_stance = "for" THEN WordSupport ELSE WordOppose

\* StartConversationUseCase.execute: the f-string introducing the topic.
StartIntro(debate_topic) ==
    IntroActually \o StanceWord(debate_topic) \o IntroIdea
        \o lower(debate_topic.title) \o IntroWhy
        \o debate_topic.key_arguments[1] \o IntroAsk

\* A variant of ContinueIntro that embeds the last key argument.
ContinueIntro_last_argument(topic) ==
    IntroActually \o StanceWord(topic) \o IntroIdea
        \o lower(topic.title) \o IntroWhy
        \o topic.key_arguments[Len(topic.key_arguments)] \o IntroAsk

\* ContinueConversationUseCase._generate_bot_response: the same f-string.
ContinueIntro(topic) ==
    IntroActually \o StanceWord(topic) \o IntroIdea
        \o lower(topic.title) \o IntroWhy
        \o topic.key_arguments[1] \o IntroAsk

\* StartConversationUseCase.execute, from the topic service's answer to the
\* bot reply: the conversation (topic set or not) and the reply's content.
start_response(conversation, debate_topic) ==
    IF debate_topic = None
    THEN [conv |-> conversation, content |-> StartRedirect]
    ELSE [conv |-> set_debate_topic(conversation, debate_topic),
          content |-> StartIntro(debate_topic)]

\* A variant of continue_topic_response that introduces the topic without
\* setting it on the conversation.
continue_topic_response_unset(conversation, topic) ==
    IF topic = None
    THEN [conv |-> conversation, content |-> ContinueRedirect]
    ELSE [conv |-> conversation, content |-> ContinueIntro(topic)]

\* ContinueConversationUseCase._generate_bot_response on a conversation
\* without topic, from the topic service's answer (None also when no topic
\* service is configured).
continue_topic_response(conversation, topic) ==
    IF topic = None
    THEN [conv |-> conversation, content |-> ContinueRedirect]
    ELSE [conv |-> set_debate_topic(conversation, topic),
          content |-> ContinueIntro(topic)]

\* ContinueConversationUseCase._generate_template_response: the four
\* templates around the argument random.choice drew.
templates(topic, argument) ==
    << Template1a \o lower(topic.title) \o Template1b \o argument \o Template1c,
       Template2a \o argument \o Template2b,
       Template3a \o lower(topic.title) \o Template3b \o argument \o Template3c,
       Template4a \o argument \o Template4b >>

\* A variant of template_response that leaves the argument out.
template_response_no_argument(topic, a, t) == templates(topic, <<>>)[t]

\* _generate_template_response with argument a and template t drawn.
template_response(topic, a, t) == templates(topic, topic.key_arguments[a])[t]

\* The contents _generate_template_response may return.
template_responses(topic) ==
    {template_response(topic, Pick(r, Len(topic.key_arguments)), Pick(r, 4)) :
        r \in Draws}

\* _generate_enhanced_mock_response: the arguments one of whose first three
\* keywords occurs in the lowercased user message.
relevant_arguments(topic, user_message) ==
    LET user_lower == lower(user_message)
        Relevant(arg) ==
            LET arg_keywords == split(lower(arg))
            IN  \E k \in 1..Len(arg_keywords) :
                    k <= 3 /\ Contains(user_lower, arg_keywords[k])
    IN  SelectSeq(topic.key_arguments, Relevant)

\* The argument pool random.choice draws from: the relevant arguments if
\* there are any, otherwise all of them.
argument_pool(topic, user_message) ==
    LET relevant == relevant_arguments(topic, user_message)
    IN  IF relevant # <<>> THEN relevant ELSE topic.key_arguments

\* The openers for the conversation's depth.
starters_for(conversation) ==
    LET message_count == Len(get_recent_messages(conversation, RecentLimit))
    IN  IF message_count <= 2 THEN early_starters ELSE deep_starters

\* _generate_enhanced_mock_response with argument a, starter s and ending e
\* drawn.
enhanced_mock_response(conversation, user_message, topic, a, s, e) ==
    starters_for(conversation)[s] \o <<" ">>
        \o argument_pool(topic, user_message)[a] \o <<" ">> \o endings[e]

\* The contents _generate_enhanced_mock_response may return.
enhanced_mock_responses(conversation, user_message, topic) ==
    {enhanced_mock_response(conversation, user_message, topic,
            Pick(r, Len(argument_pool(topic, user_message))),
            Pick(r, Len(starters_for(conversation))),
            Pick(r, Len(endings))) : r \in Draws}

\* ------------------------------------------------------------ state
VARIABLES
    llm_service,     \* the LLM collaborator the container wires into TopicService
                     \* and ContinueConversationUseCase: "none", "mock" (the
                     \* MockOpenAIService) or "real" (a provider client)
    topic_service,   \* whether ContinueConversationUseCase._topic_service is set
    objs,            \* the Conversation objects, by conversation_id
    repo,            \* keys of ConversationMemoryRepository._conversations; the
                     \* value under key u is the object objs[u] itself
    response_index,  \* MockOpenAIService._response_index
    calls,           \* the use-case calls suspended at an LLM await
    ret,             \* the last step: the operation, its inputs and what it
                     \* returned or raised ("awaiting": it suspended)
    ncalls,          \* operations begun
    redis            \* the Redis keyspace a RedisConversationRepository writes:
                     \* the document under "conversation:<id>", by id

vars ==
    <<llm_service, topic_service, objs, repo, response_index, calls, ret,
      ncalls, redis>>

\* A variant of NewUUID that gives out the newest conversation's id again.
NewUUID_reused ==
    IF DOMAIN objs = {} THEN 1 ELSE Cardinality(DOMAIN objs)

\* uuid4(): an id no conversation has.
NewUUID == Cardinality(DOMAIN objs) + 1

\* A conversation_id string as continue receives it: str(uuid) ("canonical")
\* or text that UUID() rejects.
NoId == [form |-> "none", uuid |-> 0]

MalformedId == [form |-> "malformed", uuid |-> 0]

ConversationIds ==
    {[form |-> "canonical", uuid |-> u] : u \in 1..NewUUID}
        \cup {MalformedId}

\* A variant of UUIDRaises that accepts any text.
UUIDRaises_never(conversation_id) == FALSE

\* UUID(conversation_id) raises ValueError.
UUIDRaises(conversation_id) == conversation_id.form # "canonical"

\* UUID(conversation_id)
UUID(conversation_id) == conversation_id.uuid

\* ConversationMemoryRepository.get_by_id: self._conversations.get(id)
get_by_id(u) == IF u \in repo THEN objs[u] ELSE None

\* A variant of save that keeps the saved conversation alone.
save_only(keys, conversation) == {conversation.conversation_id}

\* A variant of save that stores nothing.
save_nothing(keys, conversation) == keys

\* ConversationMemoryRepository.save: the keys after
\* self._conversations[conversation.conversation_id] = conversation
save(keys, conversation) == keys \cup {conversation.conversation_id}

NoRet ==
    [op |-> "none", status |-> "none", error |-> "none", uuid |-> 0,
     conversation_id |-> NoId, message |-> <<>>, role |-> "none",
     before |-> <<>>, had_topic |-> FALSE, llm |-> "none", fault |-> "none",
     store |-> "none", result |-> None]

Init ==
    /\ llm_service \in {"none", "mock", "real"}
    /\ topic_service \in BOOLEAN
    /\ objs = EmptyDict
    /\ repo = {}
    /\ response_index = 0
    /\ calls = {}
    /\ ret = NoRet
    /\ ncalls = 0
    /\ redis = EmptyDict

\* The record of a step of a use-case call.  before is the message log the
\* call found (continue: at get_by_id), had_topic whether it found a topic,
\* llm what the provider did at the await the step resumed from, fault the
\* repository operation that failed under the call ("none": none did), store
\* the repository the use case runs on, result what a repository operation
\* called directly returned.
Returned(op, status, error, u, conversation_id, message, before, topic_before, llm) ==
    [op |-> op, status |-> status, error |-> error,
     uuid |-> u, conversation_id |-> conversation_id, message |-> message,
     role |-> "user", before |-> before, had_topic |-> topic_before # None,
     llm |-> llm, fault |-> "none", store |-> "memory", result |-> None]

\* What the storage refuses of the repository operation a call has reached,
\* fault being the operation it refuses next.
refused(operation, fault) == IF fault = operation THEN operation ELSE "none"

\* A variant of repository_raises: the refusal is swallowed.
repository_raises_never(operation, fault) == FALSE

\* Whether the repository operation the call has reached raises
\* RepositoryError: the methods wrap every failure of the storage into it.
repository_raises(operation, fault) == refused(operation, fault) # "none"

\* The tail of both use cases, from the bot reply's content on:
\* Message.create(content, "bot"), conversation.add_message, repository.save,
\* return.  An exception leaves the object as mutated so far and saves nothing;
\* a RepositoryError of save is caught nowhere and leaves execute.
Finish(c, conversation, content, llm, fault) ==
    LET u == conversation.conversation_id
        Ret(status, error) ==
            Returned(c.op, status, error, u, c.conversation_id, c.user_message,
                     c.before, c.topic, llm)
    IN  IF MessageRaises(content, "bot")
        THEN /\ objs' = (u :> conversation) @@ objs
             /\ repo' = repo
             /\ ret' = Ret("ValueError", "empty_content")
        ELSE LET r == add_message(conversation, Message(content, "bot"))
             IN  IF r.raised
                 THEN /\ objs' = (u :> conversation) @@ objs
                      /\ repo' = repo
                      /\ ret' = Ret("ValueError", "consecutive")
                 ELSE IF repository_raises("save", fault)
                 THEN /\ objs' = (u :> r.conv) @@ objs
                      /\ repo' = repo
                      /\ ret' = [Ret("RepositoryError", "save")
                                    EXCEPT !.fault = refused("save", fault)]
                 ELSE /\ objs' = (u :> r.conv) @@ objs
                      /\ repo' = save(repo, r.conv)
                      /\ ret' = [Ret("ok", "none")
                                    EXCEPT !.fault = refused("save", fault)]

\* An exception that leaves execute between the user append and the bot
\* append: the object keeps what was done to it, nothing is saved.
Propagate(c, status, error, llm) ==
    /\ ret' = Returned(c.op, status, error, c.uuid, c.conversation_id,
                       c.user_message, c.before, c.topic, llm)
    /\ UNCHANGED <<objs, repo>>

\* A call's frame: its arguments and locals, as a suspended call keeps them
\* (topic is _generate_bot_response's local "topic = conversation.topic").
Call(op, pc, u, conversation_id, user_message, before, topic) ==
    [n |-> ncalls + 1, op |-> op, pc |-> pc, uuid |-> u,
     conversation_id |-> conversation_id, user_message |-> user_message,
     before |-> before, topic |-> topic]

\* The step that suspends call c at its await.
Suspend(c) ==
    /\ Cardinality(calls) < MaxInFlight
    /\ calls' = calls \cup {c}
    /\ ret' = Returned(c.op, "awaiting", "none", c.uuid, c.conversation_id,
                       c.user_message, c.before, c.topic, "none")

\* TopicService._is_casual_greeting on every text the model classifies: the
\* messages callers send and the contents logged for them (computed once).
greeting_of ==
    [m \in UserMessages \cup GreetingMessages
            \cup {strip(x) : x \in UserMessages \cup GreetingMessages} |->
        is_casual_greeting(m)]

\* A variant of sync_topics that skips the greeting classifier.
sync_topics_unclassified(user_message) ==
    IF llm_service = "mock"
    THEN {mock_generate_debate_topic(response_index)}
    ELSE FallbackTopics

\* TopicService.generate_topic_for_message where it makes no network call:
\* a greeting, no LLM collaborator, or the mock.
sync_topics(user_message) ==
    IF greeting_of[user_message] THEN {None}
    ELSE IF llm_service = "mock"
         THEN {mock_generate_debate_topic(response_index)}
         ELSE FallbackTopics

\* A variant of topic_awaits that asks the provider about greetings too.
topic_awaits_any(user_message) == llm_service = "real"

\* Whether generate_topic_for_message awaits the provider.
topic_awaits(user_message) ==
    llm_service = "real" /\ ~greeting_of[user_message]

\* MockOpenAIService.generate_debate_topic: self._response_index += 1
mock_called(user_message) ==
    llm_service = "mock" /\ ~greeting_of[user_message]

\* What the provider call of generate_debate_topic came to: "unusable" is an
\* answer OpenAIService could not turn into a topic (LLMServiceError).
topic_outcome(outcome, generated) ==
    IF outcome = "answer" /\ generated = None THEN "unusable" ELSE outcome

\* ------------------------------------------------------------ start
\* StartConversationUseCase.execute up to its first suspension: the whole call
\* unless the topic service awaits a real provider.
StartConversation(initial_message, fault) ==
    /\ ncalls < MaxCalls
    /\ ncalls' = ncalls + 1
    /\ UNCHANGED <<redis, llm_service, topic_service>>
    /\ LET c == Call("start", "await_topic", NewUUID, NoId, initial_message,
                     <<>>, None)
       IN  IF IsBlank(initial_message)
           THEN /\ ret' = Returned("start", "ValueError", "empty_message", 0,
                                   NoId, initial_message, <<>>, None, "none")
                /\ UNCHANGED <<objs, repo, response_index, calls>>
           ELSE LET user_message == Message(strip(initial_message), "user")
                    conversation ==
                        add_message(Conversation(NewUUID, None), user_message).conv
                IN  IF topic_awaits(initial_message)
                    THEN /\ Suspend(c)
                         /\ objs' = (NewUUID :> conversation) @@ objs
                         /\ UNCHANGED <<repo, response_index>>
                    ELSE /\ \E debate_topic \in sync_topics(initial_message) :
                              LET r == start_response(conversation, debate_topic)
                              IN  Finish(c, r.conv, r.content, "none", fault)
                         /\ response_index' =
                              IF mock_called(initial_message)
                              THEN response_index + 1 ELSE response_index
                         /\ UNCHANGED calls

\* The provider answers start's generate_debate_topic: a parsed answer (a
\* topic, or LLMServiceError when it is unusable), a timeout or API error
\* (wrapped into LLMServiceError), or the task is cancelled (CancelledError is
\* no Exception and leaves execute).
StartTopicReturn(c, outcome, answer, fault) ==
    /\ c \in calls /\ c.op = "start" /\ c.pc = "await_topic"
    /\ calls' = calls \ {c}
    /\ UNCHANGED <<redis, llm_service, topic_service, response_index, ncalls>>
    /\ IF outcome = "cancelled"
       THEN Propagate(c, "CancelledError", "cancelled", outcome)
       ELSE LET generated ==
                    IF outcome = "answer" THEN openai_generate_debate_topic(answer)
                    ELSE None
            IN  \E debate_topic \in
                    (IF generated # None THEN {generated} ELSE FallbackTopics) :
                    LET r == start_response(objs[c.uuid], debate_topic)
                    IN  Finish(c, r.conv, r.content, topic_outcome(outcome, generated),
                               fault)

\* ------------------------------------------------------------ continue
\* A variant of sync_responses that answers a conversation with topic from
\* the templates whatever the collaborator.
sync_responses_template(conversation, user_message) ==
    IF ~has_topic(conversation)
    THEN IF topic_service
         THEN {continue_topic_response(conversation, t) :
                  t \in sync_topics(user_message)}
         ELSE {continue_topic_response(conversation, None)}
    ELSE {[conv |-> conversation, content |-> x] :
             x \in template_responses(conversation.topic)}

\* ContinueConversationUseCase._generate_bot_response where it makes no
\* network call: the (conversation, content) pairs it may produce.
sync_responses(conversation, user_message) ==
    IF ~has_topic(conversation)
    THEN IF topic_service
         THEN {continue_topic_response(conversation, t) :
                  t \in sync_topics(user_message)}
         ELSE {continue_topic_response(conversation, None)}
    ELSE IF llm_service = "mock"
         THEN {[conv |-> conversation, content |-> x] :
                  x \in enhanced_mock_responses(conversation, user_message,
                                                conversation.topic)}
         ELSE {[conv |-> conversation, content |-> x] :
                  x \in template_responses(conversation.topic)}

\* Where _generate_bot_response first awaits the provider, if it does.
await_point(conversation, user_message) ==
    IF ~has_topic(conversation)
    THEN IF topic_service /\ topic_awaits(user_message)
         THEN "await_topic" ELSE "none"
    ELSE IF llm_service = "real" THEN "await_reply" ELSE "none"

\* ContinueConversationUseCase.execute up to its first suspension.  The
\* conversation get_by_id returns is the stored object, so the user message is
\* in the stored object from the append on.
ContinueConversation(conversation_id, user_message, fault) ==
    /\ ncalls < MaxCalls
    /\ ncalls' = ncalls + 1
    /\ UNCHANGED <<redis, llm_service, topic_service>>
    /\ LET Raise(error) ==
               /\ ret' = Returned("continue", "ValueError", error, 0,
                                  conversation_id, user_message, <<>>, None, "none")
               /\ UNCHANGED <<objs, repo, response_index, calls>>
       IN  IF IsBlank(user_message) THEN Raise("empty_message")
           ELSE IF UUIDRaises(conversation_id) THEN Raise("invalid_format")
           ELSE IF repository_raises("get_by_id", fault)
           THEN /\ ret' = [Returned("continue", "RepositoryError", "get_by_id",
                                    0, conversation_id, user_message, <<>>,
                                    None, "none")
                             EXCEPT !.fault = refused("get_by_id", fault)]
                /\ UNCHANGED <<objs, repo, response_index, calls>>
           ELSE IF get_by_id(UUID(conversation_id)) = None THEN Raise("not_found")
           ELSE
             LET found == get_by_id(UUID(conversation_id))
                 u == found.conversation_id
                 new_user_message == Message(strip(user_message), "user")
                 r == add_message(found, new_user_message)
                 pc == await_point(r.conv, user_message)
                 c == Call("continue", pc, u, conversation_id, user_message,
                           found.messages, found.topic)
             IN  IF r.raised
                 THEN /\ ret' = Returned("continue", "ValueError", "consecutive",
                                         u, conversation_id, user_message,
                                         found.messages, found.topic, "none")
                      /\ UNCHANGED <<objs, repo, response_index, calls>>
                 ELSE IF pc # "none"
                 THEN /\ Suspend(c)
                      /\ objs' = [objs EXCEPT ![u] = r.conv]
                      /\ UNCHANGED <<repo, response_index>>
                 ELSE /\ \E s \in sync_responses(r.conv, user_message) :
                           Finish(c, s.conv, s.content, "none", fault)
                      /\ response_index' =
                           IF ~has_topic(found) /\ topic_service
                              /\ mock_called(user_message)
                           THEN response_index + 1 ELSE response_index
                      /\ UNCHANGED calls

\* The provider answers continue's generate_debate_topic (as for start).
ContinueTopicReturn(c, outcome, answer, fault) ==
    /\ c \in calls /\ c.op = "continue" /\ c.pc = "await_topic"
    /\ calls' = calls \ {c}
    /\ UNCHANGED <<redis, llm_service, topic_service, response_index, ncalls>>
    /\ IF outcome = "cancelled"
       THEN Propagate(c, "CancelledError", "cancelled", outcome)
       ELSE LET generated ==
                    IF outcome = "answer" THEN openai_generate_debate_topic(answer)
                    ELSE None
            IN  \E topic \in
                    (IF generated # None THEN {generated} ELSE FallbackTopics) :
                    LET r == continue_topic_response(objs[c.uuid], topic)
                    IN  Finish(c, r.conv, r.content, topic_outcome(outcome, generated),
                               fault)

\* The chat completion _generate_ai_response awaits on the service's client
\* ends: with a text; with LLMServiceError (a client that raises it), which
\* _generate_bot_response catches and answers with a template; with the
\* provider client's own exception (a timeout), which is no LLMServiceError
\* and which nothing catches; or with the task cancelled.
ContinueReplyReturn(c, outcome, text, fault) ==
    /\ c \in calls /\ c.op = "continue" /\ c.pc = "await_reply"
    /\ calls' = calls \ {c}
    /\ UNCHANGED <<redis, llm_service, topic_service, response_index, ncalls>>
    /\ CASE outcome = "answer" ->
              Finish(c, objs[c.uuid], strip(text), outcome, fault)
         [] outcome = "llm_error" ->
              \E x \in template_responses(c.topic) :
                  Finish(c, objs[c.uuid], x, outcome, fault)
         [] outcome = "timeout" ->
              Propagate(c, "APITimeoutError", "timeout", outcome)
         [] outcome = "cancelled" ->
              Propagate(c, "CancelledError", "cancelled", outcome)

\* ------------------------------------------------------------ callers
\* A caller holding a conversation (the one start or continue returned is the
\* stored object) appends a message itself: Message.create, add_message.
MsgDirect == <<"o","k">>

AddMessage(u, role, content) ==
    /\ ncalls < MaxCalls
    /\ ncalls' = ncalls + 1
    /\ u \in DOMAIN objs
    /\ \A c \in calls : ~(c.op = "start" /\ c.uuid = u)
    /\ LET r == add_message(objs[u], Message(content, role))
       IN  /\ objs' = [objs EXCEPT ![u] = r.conv]
           /\ ret' = [op |-> "add_message",
                      status |-> IF r.raised THEN "ValueError" ELSE "ok",
                      error |-> IF r.raised THEN "consecutive" ELSE "none",
                      uuid |-> u, conversation_id |-> NoId,
                      message |-> content, role |-> role,
                      before |-> objs[u].messages,
                      had_topic |-> objs[u].topic # None, llm |-> "none",
                      fault |-> "none", store |-> "memory", result |-> None]
    /\ UNCHANGED <<redis, llm_service, topic_service, repo, response_index, calls>>

\* A caller creates a conversation itself: Conversation.create().
CreateConversation ==
    /\ ncalls < MaxCalls
    /\ ncalls' = ncalls + 1
    /\ objs' = (NewUUID :> Conversation(NewUUID, None)) @@ objs
    /\ ret' = [NoRet EXCEPT !.op = "create", !.status = "ok", !.uuid = NewUUID]
    /\ UNCHANGED <<redis, llm_service, topic_service, repo, response_index, calls>>

\* ------------------------------------------------------------ specifications
\* A usable answer, and one DebateTopic.create rejects (no arguments).
AIAnswers ==
    {[title |-> AITitle, description |-> AIDescription,
      key_arguments |-> AIArguments],
     [title |-> AITitle, description |-> AIDescription, key_arguments |-> <<>>]}

TopicOutcomes == {"answer", "timeout", "cancelled"}

ReplyOutcomes == {"answer", "llm_error", "timeout", "cancelled"}

\* ConversationMemoryRepository's operations on a dict raise nothing.
Start == \E m \in UserMessages : StartConversation(m, "none")

Continue ==
    \E id \in ConversationIds, m \in UserMessages :
        ContinueConversation(id, m, "none")

StartResume ==
    \E c \in calls, o \in TopicOutcomes, a \in AIAnswers :
        StartTopicReturn(c, o, a, "none")

ContinueTopicResume ==
    \E c \in calls, o \in TopicOutcomes, a \in AIAnswers :
        ContinueTopicReturn(c, o, a, "none")

ContinueReplyResume ==
    \E c \in calls, o \in ReplyOutcomes, t \in AIReplies :
        ContinueReplyReturn(c, o, t, "none")

DirectAdd ==
    \E u \in DOMAIN objs, role \in {"user", "bot"} : AddMessage(u, role, MsgDirect)

Next ==
    \/ Start
    \/ Continue
    \/ StartResume
    \/ ContinueTopicResume
    \/ ContinueReplyResume

\* The use cases alone, on the in-memory repository.
Spec == Init /\ [][Next]_vars

NextEntity ==
    \/ Next
    \/ CreateConversation
    \/ DirectAdd

\* The use cases together with callers that use the entities directly.
SpecEntity == Init /\ [][NextEntity]_vars

\* ------------------------------------------------------------ templates
\* The topics a conversation may have: a predefined one (the stand-in's
\* answer), a fallback with any intro, or the provider's.
Topics ==
    {conspiracy_topics[t] : t \in 1..Len(conspiracy_topics)}
        \cup {fallback_topic_with_intro(t, i) :
                 t \in 1..Len(conspiracy_topics), i \in 1..Len(fallback_intros)}
        \cup ({openai_generate_debate_topic(a) : a \in AIAnswers} \ {None})

\* A conversation with one of the topics: Conversation.create(topic).
InitTemplate ==
    /\ llm_service = "none"
    /\ topic_service = FALSE
    /\ \E topic \in Topics : objs = (1 :> Conversation(1, topic))
    /\ repo = {}
    /\ response_index = 0
    /\ calls = {}
    /\ ret = NoRet
    /\ ncalls = 0
    /\ redis = EmptyDict

\* _generate_template_response(topic, user_message) where random.choice
\* returns argument a and template t.
TemplateResponse(u, a, t) ==
    /\ u \in DOMAIN objs
    /\ has_topic(objs[u])
    /\ a \in 1..Len(objs[u].topic.key_arguments)
    /\ ret' = [NoRet EXCEPT !.op = "template_response", !.status = "ok",
                            !.uuid = u, !.role = "bot",
                            !.message = template_response(objs[u].topic, a, t)]
    /\ UNCHANGED <<redis, llm_service, topic_service, objs, repo, response_index,
                   calls, ncalls>>

NextTemplate ==
    \E u \in DOMAIN objs :
        \E a \in 1..Len(objs[u].topic.key_arguments), t \in 1..4 :
            TemplateResponse(u, a, t)

\* The template strategy alone, on every topic and every draw.
SpecTemplate == InitTemplate /\ [][NextTemplate]_vars


\* ------------------------------------------------------------ storage faults
\* The use cases on a repository whose operations may raise RepositoryError,
\* as ConversationRepositoryInterface allows: each step says which operation
\* the storage refuses next (once), if the step gets to it.
SaveFaults == {"none", "save"}

\* Calls begun under this specification: a start and a continue of it at the
\* least.
StorageCalls == MaxCalls - 1

ContinueFaults == {"none", "get_by_id", "save"}

StartFaulty ==
    /\ ncalls < StorageCalls
    /\ \E m \in UserMessages, f \in SaveFaults : StartConversation(m, f)

ContinueFaulty ==
    /\ ncalls < StorageCalls
    /\ \E id \in ConversationIds, m \in UserMessages, f \in ContinueFaults :
          ContinueConversation(id, m, f)

StartResumeFaulty ==
    \E c \in calls, o \in TopicOutcomes, a \in AIAnswers, f \in SaveFaults :
        StartTopicReturn(c, o, a, f)

ContinueTopicResumeFaulty ==
    \E c \in calls, o \in TopicOutcomes, a \in AIAnswers, f \in SaveFaults :
        ContinueTopicReturn(c, o, a, f)

ContinueReplyResumeFaulty ==
    \E c \in calls, o \in ReplyOutcomes, t \in AIReplies, f \in SaveFaults :
        ContinueReplyReturn(c, o, t, f)

InitStorage == Init /\ llm_service = "real" /\ topic_service

NextStorage ==
    \/ StartFaulty
    \/ ContinueFaulty
    \/ StartResumeFaulty
    \/ ContinueTopicResumeFaulty
    \/ ContinueReplyResumeFaulty

SpecStorage == InitStorage /\ [][NextStorage]_vars

\* ------------------------------------------------------------ repositories
\* ConversationMemoryRepository.delete: whether the id was a key, and the
\* keys afterwards.  A variant that reports the removal and removes nothing:
delete_nothing(keys, conversation_id) ==
    [result |-> conversation_id \in keys, keys |-> keys]

delete(keys, conversation_id) ==
    [result |-> conversation_id \in keys, keys |-> keys \ {conversation_id}]

\* ConversationMemoryRepository.exists
exists(keys, conversation_id) == conversation_id \in keys

\* RedisConversationRepository.  The module imports StanceType from
\* core.entities.debate_topic, which defines no such name, so importing it
\* raises ImportError and no build has an instance; below are the bodies of
\* its methods, whose outcome does not depend on what that name is bound to.

\* _serialize_conversation raises AttributeError at the first message: it
\* reads message.timestamp, and a Message has created_at.
serialize_raises(conversation) == conversation.messages # <<>>

\* _serialize_conversation where it returns: the topic keeps title,
\* description and bot_stance (key_arguments and metadata are left out).
serialize_conversation(conversation) ==
    [conversation_id |-> conversation.conversation_id,
     topic |-> IF conversation.topic # None
               THEN [title |-> conversation.topic.title,
                     description |-> conversation.topic.description,
                     bot_stance |-> conversation.topic.bot_stance]
               ELSE None,
     messages |-> [i \in 1..Len(conversation.messages) |->
                      [role |-> conversation.messages[i].role,
                       content |-> conversation.messages[i].content]]]

\* _deserialize_conversation raises on a document with a topic (DebateTopic
\* is called without key_arguments, bot_stance through StanceType) and on one
\* with a message (Message is called with timestamp=).
deserialize_raises(data) == data.topic # None \/ data.messages # <<>>

\* _deserialize_conversation where it returns: a new Conversation.
deserialize_conversation(data) == Conversation(data.conversation_id, None)

\* RedisConversationRepository.save: every exception becomes RepositoryError
\* and nothing is written.
redis_save(keyspace, conversation) ==
    IF serialize_raises(conversation)
    THEN [raised |-> TRUE, keyspace |-> keyspace]
    ELSE [raised |-> FALSE,
          keyspace |-> (conversation.conversation_id
                           :> serialize_conversation(conversation)) @@ keyspace]

\* RedisConversationRepository.get_by_id
redis_get_by_id(keyspace, conversation_id) ==
    IF conversation_id \notin DOMAIN keyspace
    THEN [raised |-> FALSE, conversation |-> None]
    ELSE IF deserialize_raises(keyspace[conversation_id])
    THEN [raised |-> TRUE, conversation |-> None]
    ELSE [raised |-> FALSE,
          conversation |-> deserialize_conversation(keyspace[conversation_id])]

\* RedisConversationRepository.delete: deleted_count > 0, and the keyspace
\* afterwards.
redis_delete(keyspace, conversation_id) ==
    [result |-> conversation_id \in DOMAIN keyspace,
     keyspace |-> [k \in DOMAIN keyspace \ {conversation_id} |-> keyspace[k]]]

\* RedisConversationRepository.exists
redis_exists(keyspace, conversation_id) == conversation_id \in DOMAIN keyspace

Stores == {"memory", "redis"}

\* The record of a repository operation a caller made directly.
Direct(op, store, status, u, result) ==
    [NoRet EXCEPT !.op = op, !.store = store, !.status = status, !.uuid = u,
                  !.result = result,
                  !.error = IF status = "ok" THEN "none" ELSE op,
                  !.before = IF u \in DOMAIN objs THEN objs[u].messages
                             ELSE <<>>,
                  !.had_topic = u \in DOMAIN objs /\ objs[u].topic # None]

\* A caller saves a conversation it holds: repository.save(conversation).
RepoSave(store, u) ==
    /\ ncalls < MaxCalls
    /\ ncalls' = ncalls + 1
    /\ u \in DOMAIN objs
    /\ IF store = "memory"
       THEN /\ repo' = save(repo, objs[u])
            /\ redis' = redis
            /\ ret' = Direct("save", store, "ok", u, None)
       ELSE LET r == redis_save(redis, objs[u])
            IN  /\ redis' = r.keyspace
                /\ repo' = repo
                /\ ret' = Direct("save", store,
                                 IF r.raised THEN "RepositoryError" ELSE "ok",
                                 u, None)
    /\ UNCHANGED <<llm_service, topic_service, objs, response_index, calls>>

\* repository.get_by_id(conversation_id)
RepoGet(store, u) ==
    /\ ncalls < MaxCalls
    /\ ncalls' = ncalls + 1
    /\ IF store = "memory"
       THEN ret' = Direct("get_by_id", store, "ok", u, get_by_id(u))
       ELSE LET r == redis_get_by_id(redis, u)
            IN  ret' = Direct("get_by_id", store,
                              IF r.raised THEN "RepositoryError" ELSE "ok",
                              u, r.conversation)
    /\ UNCHANGED <<llm_service, topic_service, objs, repo, response_index,
                   calls, redis>>

\* repository.delete(conversation_id)
RepoDelete(store, u) ==
    /\ ncalls < MaxCalls
    /\ ncalls' = ncalls + 1
    /\ IF store = "memory"
       THEN LET r == delete(repo, u)
            IN  /\ repo' = r.keys
                /\ redis' = redis
                /\ ret' = Direct("delete", store, "ok", u, r.result)
       ELSE LET r == redis_delete(redis, u)
            IN  /\ redis' = r.keyspace
                /\ repo' = repo
                /\ ret' = Direct("delete", store, "ok", u, r.result)
    /\ UNCHANGED <<llm_service, topic_service, objs, response_index, calls>>

\* repository.exists(conversation_id)
RepoExists(store, u) ==
    /\ ncalls < MaxCalls
    /\ ncalls' = ncalls + 1
    /\ ret' = Direct("exists", store, "ok", u,
                     IF store = "memory" THEN exists(repo, u)
                     ELSE redis_exists(redis, u))
    /\ UNCHANGED <<llm_service, topic_service, objs, repo, response_index,
                   calls, redis>>

\* The conversations a caller holds: as created, with a topic, and with a
\* topic and one or two messages.
HeldConversations ==
    LET topic == conspiracy_topics[1]
        one == add_message(Conversation(1, topic),
                           Message(MsgTax, "user")).conv
        two == add_message(one, Message(MsgDirect, "bot")).conv
    IN  {Conversation(1, None), Conversation(1, topic), one, two}

InitRepo ==
    /\ llm_service = "none" /\ topic_service = FALSE
    /\ \E conversation \in HeldConversations : objs = (1 :> conversation)
    /\ repo = {}
    /\ response_index = 0
    /\ calls = {}
    /\ ret = NoRet
    /\ ncalls = 0
    /\ redis = EmptyDict

Save == \E store \in Stores, u \in DOMAIN objs : RepoSave(store, u)

Get == \E store \in Stores, u \in 1..NewUUID : RepoGet(store, u)

Delete == \E store \in Stores, u \in 1..NewUUID : RepoDelete(store, u)

Exists == \E store \in Stores, u \in 1..NewUUID : RepoExists(store, u)

NextRepo ==
    \/ Save
    \/ Get
    \/ Delete
    \/ Exists

\* Callers that use the two repositories directly.
SpecRepo == InitRepo /\ [][NextRepo]_vars

\* ------------------------------------------------------------ continue on Redis
\* ContinueConversationUseCase on the RedisConversationRepository: get_by_id
\* builds a new Conversation on every call, so each call works on an object
\* of its own, which its frame holds (conv), and only save writes it back.
\* The record of a step carries the frame of the call (result).
RedisReturned(c, status, error, llm) ==
    [Returned("continue", status, error, c.uuid, c.conversation_id,
              c.user_message, c.before, c.topic, llm)
        EXCEPT !.store = "redis", !.result = c]

\* The tail of execute: Message.create(content, "bot"), add_message, save.
FinishRedis(c, conversation, content, llm) ==
    IF MessageRaises(content, "bot")
    THEN /\ redis' = redis
         /\ ret' = RedisReturned([c EXCEPT !.conv = conversation],
                                 "ValueError", "empty_content", llm)
    ELSE LET r == add_message(conversation, Message(content, "bot"))
             s == redis_save(redis, r.conv)
             d == [c EXCEPT !.conv = r.conv]
         IN  IF r.raised
             THEN /\ redis' = redis
                  /\ ret' = RedisReturned(d, "ValueError", "consecutive", llm)
             ELSE IF s.raised
             THEN /\ redis' = redis
                  /\ ret' = RedisReturned(d, "RepositoryError", "save", llm)
             ELSE /\ redis' = s.keyspace
                  /\ ret' = RedisReturned(d, "ok", "none", llm)

\* execute up to its first suspension.
ContinueConversationRedis(conversation_id, user_message) ==
    /\ ncalls < MaxCalls
    /\ ncalls' = ncalls + 1
    /\ UNCHANGED <<llm_service, topic_service, objs, repo>>
    /\ LET Raise(status, error) ==
               /\ ret' = [Returned("continue", status, error, 0,
                                   conversation_id, user_message, <<>>, None,
                                   "none") EXCEPT !.store = "redis"]
               /\ UNCHANGED <<redis, response_index, calls>>
           read == redis_get_by_id(redis, UUID(conversation_id))
       IN  IF IsBlank(user_message) THEN Raise("ValueError", "empty_message")
           ELSE IF UUIDRaises(conversation_id)
           THEN Raise("ValueError", "invalid_format")
           ELSE IF read.raised THEN Raise("RepositoryError", "get_by_id")
           ELSE IF read.conversation = None
           THEN Raise("ValueError", "not_found")
           ELSE
             LET found == read.conversation
                 r == add_message(found, Message(strip(user_message), "user"))
                 pc == await_point(r.conv, user_message)
                 c == [n |-> ncalls + 1, op |-> "continue", pc |-> pc,
                       uuid |-> found.conversation_id,
                       conversation_id |-> conversation_id,
                       user_message |-> user_message,
                       before |-> found.messages, topic |-> found.topic,
                       conv |-> r.conv]
             IN  IF r.raised
                 THEN /\ ret' = RedisReturned(c, "ValueError", "consecutive",
                                              "none")
                      /\ UNCHANGED <<redis, response_index, calls>>
                 ELSE IF pc # "none"
                 THEN /\ Cardinality(calls) < MaxInFlight
                      /\ calls' = calls \cup {c}
                      /\ ret' = RedisReturned(c, "awaiting", "none", "none")
                      /\ UNCHANGED <<redis, response_index>>
                 ELSE /\ \E s \in sync_responses(r.conv, user_message) :
                           FinishRedis(c, s.conv, s.content, "none")
                      /\ response_index' =
                           IF ~has_topic(found) /\ topic_service
                              /\ mock_called(user_message)
                           THEN response_index + 1 ELSE response_index
                      /\ UNCHANGED calls

\* The provider call the suspended call awaits ends (as ContinueTopicReturn
\* and ContinueReplyReturn).
ContinueRedisReturn(c, outcome, answer, text) ==
    /\ c \in calls
    /\ calls' = calls \ {c}
    /\ UNCHANGED <<llm_service, topic_service, objs, repo, response_index,
                   ncalls>>
    /\ IF outcome \in {"timeout", "cancelled"}
          /\ (outcome = "cancelled" \/ c.pc = "await_reply")
       THEN /\ redis' = redis
            /\ ret' = RedisReturned(c,
                         IF outcome = "cancelled" THEN "CancelledError"
                         ELSE "APITimeoutError", outcome, outcome)
       ELSE IF c.pc = "await_topic"
       THEN /\ outcome \in TopicOutcomes
            /\ LET generated ==
                       IF outcome = "answer"
                       THEN openai_generate_debate_topic(answer) ELSE None
               IN  \E topic \in (IF generated # None THEN {generated}
                                 ELSE FallbackTopics) :
                       LET r == continue_topic_response(c.conv, topic)
                       IN  FinishRedis(c, r.conv, r.content,
                                       topic_outcome(outcome, generated))
       ELSE IF outcome = "answer"
       THEN FinishRedis(c, c.conv, strip(text), outcome)
       ELSE \E x \in template_responses(c.topic) :
                FinishRedis(c, c.conv, x, outcome)

\* A caller holds a conversation it created and saves it.
InitRedis ==
    /\ llm_service = "real" /\ topic_service = TRUE
    /\ \E conversation \in HeldConversations : objs = (1 :> conversation)
    /\ repo = {}
    /\ response_index = 0
    /\ calls = {}
    /\ ret = NoRet
    /\ ncalls = 0
    /\ redis = EmptyDict

SaveRedis == \E u \in DOMAIN objs : RepoSave("redis", u)

ContinueRedis ==
    \E id \in ConversationIds, m \in UserMessages :
        ContinueConversationRedis(id, m)

ContinueRedisResume ==
    \E c \in calls, o \in ReplyOutcomes, a \in AIAnswers, t \in AIReplies :
        ContinueRedisReturn(c, o, a, t)

NextRedis ==
    \/ SaveRedis
    \/ ContinueRedis
    \/ ContinueRedisResume

\* The continue use case on the Redis repository.
SpecRedis == InitRedis /\ [][NextRedis]_vars

\* ------------------------------------------------------------ transport
\* POST /api/v1/conversation.  (routes/conversation.py imports the container,
\* which imports the Redis repository module, whose import fails; below is
\* what the route does once it is served.)

\* ConversationRequest: message has min_length=1 and max_length=1000; a body
\* that fails the schema is answered 422 before the handler runs.
MaxMessageLength == 1000

request_invalid(message) == Len(message) < 1 \/ Len(message) > MaxMessageLength

\* The text of the exception the handler's body ends with: execute is an
\* async def called without await, so "conversation" is a coroutine object
\* and conversation.get_recent_messages raises AttributeError.
CoroutineAttributeError ==
    "'coroutine' object has no attribute 'get_recent_messages'"

InternalServerError == "Internal server error: "

\* A variant of error_detail that keeps the exception's text to itself.
error_detail_generic(text) == <<InternalServerError>>

\* detail=f"Internal server error: {str(e)}": the parts of the f-string.
error_detail(text) == <<InternalServerError, text>>

\* handle_conversation.  Neither use case runs: the coroutine execute returns
\* is never awaited, so nothing is created, appended or saved; the
\* AttributeError is no ValueError and falls to "except Exception".
HandleConversation(conversation_id, message) ==
    /\ ncalls < MaxCalls
    /\ ncalls' = ncalls + 1
    /\ ret' = [NoRet EXCEPT
                 !.op = "request",
                 !.conversation_id = conversation_id,
                 !.message = message,
                 !.status = IF request_invalid(message) THEN "422" ELSE "500",
                 !.error = IF request_invalid(message) THEN "validation"
                           ELSE "AttributeError",
                 !.result = IF request_invalid(message) THEN None
                            ELSE [detail |->
                                     error_detail(CoroutineAttributeError)]]
    /\ UNCHANGED <<llm_service, topic_service, objs, repo, response_index,
                   calls, redis>>

Request ==
    \E id \in ConversationIds \cup {NoId}, m \in UserMessages :
        HandleConversation(id, m)

\* The container without an API key: the stand-in LLM service.
InitTransport == Init /\ llm_service = "mock" /\ topic_service = TRUE

NextTransport ==
    \/ Start
    \/ Continue
    \/ Request

\* The route, beside callers that run the use cases themselves.
SpecTransport == InitTransport /\ [][NextTransport]_vars

\* ------------------------------------------------------------ lifecycle
NextLifecycle ==
    \/ Start
    \/ Continue
    \/ Delete

\* The use cases, beside a caller that deletes through the repository.
SpecLifecycle == InitTransport /\ [][NextLifecycle]_vars

\* ------------------------------------------------------------ returned lists
\* A variant of get_messages that hands out the log itself.
get_messages_shared(conv) == [shared |-> TRUE, items |-> conv.messages]

\* Conversation.get_messages: self._messages.copy(), a new list with the
\* same Message objects (shared: whether the list is the log itself).
get_messages(conv) == [shared |-> FALSE, items |-> conv.messages]

\* Conversation.get_recent_messages as a caller gets it: the slice
\* self._messages[-limit:] is a new list.
recent_messages_list(conv) ==
    [shared |-> FALSE, items |-> get_recent_messages(conv, RecentLimit)]

\* list.append(x), list.pop(), list.reverse(), list.clear() on a list.
ListEdits == {"append", "pop", "reverse", "clear"}

edit_list(items, edit, x) ==
    CASE edit = "append" -> Append(items, x)
      [] edit = "pop" -> IF items = <<>> THEN items
                         ELSE SubSeq(items, 1, Len(items) - 1)
      [] edit = "reverse" -> [i \in 1..Len(items) |-> items[Len(items) + 1 - i]]
      [] edit = "clear" -> <<>>

\* A caller asks a conversation it holds for its messages.
GetMessages(u, recent) ==
    /\ ncalls < MaxCalls
    /\ ncalls' = ncalls + 1
    /\ u \in DOMAIN objs
    /\ ret' = [NoRet EXCEPT
                 !.op = IF recent THEN "get_recent_messages" ELSE "get_messages",
                 !.status = "ok", !.uuid = u,
                 !.before = objs[u].messages,
                 !.result = IF recent THEN recent_messages_list(objs[u])
                            ELSE get_messages(objs[u])]
    /\ UNCHANGED <<llm_service, topic_service, objs, repo, response_index,
                   calls, redis>>

\* The caller changes the list it was given; a list that is the log itself
\* changes the conversation with it.
ModifyList(edit) ==
    /\ ncalls < MaxCalls
    /\ ncalls' = ncalls + 1
    /\ ret.op \in {"get_messages", "get_recent_messages", "modify_list"}
    /\ LET items == edit_list(ret.result.items, edit,
                               Message(MsgDirect, "bot"))
       IN  /\ ret' = [ret EXCEPT !.op = "modify_list", !.message = <<edit>>,
                                 !.before = objs[ret.uuid].messages,
                                 !.result = [ret.result EXCEPT !.items = items]]
           /\ objs' = IF ret.result.shared
                      THEN [objs EXCEPT ![ret.uuid].messages = items]
                      ELSE objs
    /\ UNCHANGED <<llm_service, topic_service, repo, response_index, calls,
                   redis>>

ReadLog == \E u \in DOMAIN objs, recent \in BOOLEAN : GetMessages(u, recent)

EditList == \E edit \in ListEdits : ModifyList(edit)

NextLog ==
    \/ Start
    \/ Continue
    \/ DirectAdd
    \/ ReadLog
    \/ EditList

\* The use cases, beside callers that append to, read and edit the logs.
SpecLog == InitTransport /\ [][NextLog]_vars

\* ------------------------------------------------------------ fallback topics
\* A variant of fallback_arguments that hands on the base topic's list.
fallback_arguments_shared(base_topic) ==
    [shared |-> TRUE, items |-> base_topic.key_arguments]

\* The key_arguments list of the topic _get_fallback_topic_with_intro
\* builds: base_topic.key_arguments.copy(), copied once more by
\* DebateTopic.__init__ (shared: whether it is the base topic's own list).
fallback_arguments(base_topic) ==
    [shared |-> FALSE, items |-> base_topic.key_arguments]

\* TopicService._fallback_topics as the last step left them.
fallback_topics ==
    IF ret.op \in {"fallback_topic", "edit_arguments"}
    THEN ret.result.fallback_topics ELSE conspiracy_topics

\* _get_fallback_topic_with_intro where random.choice draws base topic t and
\* intro i.  It reads the base topic and builds a new DebateTopic with a new
\* metadata dict.
SelectFallback(t, i) ==
    /\ ncalls < MaxCalls
    /\ ncalls' = ncalls + 1
    /\ ret' = [NoRet EXCEPT
                 !.op = "fallback_topic", !.status = "ok", !.uuid = t,
                 !.result =
                    [fallback_topics |-> fallback_topics,
                     topic |-> fallback_topic_with_intro(t, i),
                     shared |-> fallback_arguments(fallback_topics[t]).shared]]
    /\ UNCHANGED <<llm_service, topic_service, objs, repo, response_index,
                   calls, redis>>

\* The caller changes the key_arguments list of the topic it was given; a
\* list that is the base topic's own changes the base topic with it.
EditArguments(edit) ==
    /\ ncalls < MaxCalls
    /\ ncalls' = ncalls + 1
    /\ ret.op \in {"fallback_topic", "edit_arguments"}
    /\ LET items == edit_list(ret.result.topic.key_arguments, edit, MsgDirect)
       IN  ret' = [ret EXCEPT
                     !.op = "edit_arguments", !.message = <<edit>>,
                     !.result.topic.key_arguments = items,
                     !.result.fallback_topics =
                        IF ret.result.shared
                        THEN [@ EXCEPT ![ret.uuid].key_arguments = items]
                        ELSE @]
    /\ UNCHANGED <<llm_service, topic_service, objs, repo, response_index,
                   calls, redis>>

Fallback ==
    \E t \in 1..Len(conspiracy_topics), i \in 1..Len(fallback_intros) :
        SelectFallback(t, i)

EditTopic == \E edit \in ListEdits : EditArguments(edit)

NextFallback ==
    \/ Fallback
    \/ EditTopic

\* A TopicService without LLM collaborator and the callers of its fallback.
SpecFallback == InitTransport /\ [][NextFallback]_vars
\* ------------------------------------------------------------ heuristic replies
\* "The water is wet"
MsgWater ==
    <<"T","h","e"," ","w","a","t","e","r"," ","i","s"," ","w","e","t">>

\* "Why?"
MsgWhy ==
    <<"W","h","y","?">>

\* User messages for the heuristic strategy: one that two arguments of a
\* topic overlap differently, one that overlaps by a substring ("the" in
\* "theft"), one that overlaps nothing.
HeuristicMessages == {MsgWater, MsgTax, MsgWhy}

\* The topics the stand-in assigns, and the provider's.
HeuristicTopics ==
    {conspiracy_topics[t] : t \in 1..Len(conspiracy_topics)}
        \cup ({openai_generate_debate_topic(a) : a \in AIAnswers} \ {None})

\* A conversation with a topic, held by the caller; the stand-in is the
\* collaborator.
InitHeuristic ==
    /\ llm_service = "mock"
    /\ topic_service = TRUE
    /\ \E topic \in HeuristicTopics : objs = (1 :> Conversation(1, topic))
    /\ repo = {}
    /\ response_index = 0
    /\ calls = {}
    /\ ret = NoRet
    /\ ncalls = 0
    /\ redis = EmptyDict

\* _generate_enhanced_mock_response(conversation, user_message, topic) on the
\* conversation with the user message appended (as execute does before),
\* where random.choice returns argument a, starter s and ending e. One
\* reply per behaviour: the reply depends on nothing an earlier one left.
EnhancedMockResponse(u, user_message, a, s, e) ==
    /\ ncalls = 0
    /\ ncalls' = 1
    /\ u \in DOMAIN objs
    /\ has_topic(objs[u])
    /\ LET conversation ==
               add_message(objs[u], Message(strip(user_message), "user")).conv
           topic == objs[u].topic
       IN  /\ a \in 1..Len(argument_pool(topic, user_message))
           /\ s \in 1..Len(starters_for(conversation))
           /\ ret' = [NoRet EXCEPT
                        !.op = "enhanced_mock_response", !.status = "ok",
                        !.uuid = u, !.role = "bot", !.message = user_message,
                        !.result = enhanced_mock_response(conversation,
                                       user_message, topic, a, s, e)]
    /\ UNCHANGED <<redis, llm_service, topic_service, objs, repo, response_index,
                   calls>>

NextHeuristic ==
    \E u \in DOMAIN objs, user_message \in HeuristicMessages :
        \E a \in 1..5, s \in 1..4, e \in 1..Len(endings) :
            EnhancedMockResponse(u, user_message, a, s, e)

\* The heuristic strategy alone, on every topic, message and draw.
SpecHeuristic == InitHeuristic /\ [][NextHeuristic]_vars
\* ------------------------------------------------------------ prompt history
\* The limit _generate_ai_response passes to get_recent_messages.
HistoryLimit == 6

\* The longest log a conversation starts with here.
MaxLog == 8

\* str.title() of a role.
role_title(role) ==
    IF role = "user" THEN <<"U","s","e","r">> ELSE <<"B","o","t">>

\* One line of the history: f"{msg.role.title()}: {msg.content}".
history_line(msg) == role_title(msg.role) \o <<":", " ">> \o msg.content

\* _generate_ai_response: the lines made of recent_messages[:-1], where
\* recent_messages are the last 6 messages, the current user message among
\* them.
history(conversation) ==
    LET recent_messages == get_recent_messages(conversation, HistoryLimit)
    IN  [i \in 1..(Len(recent_messages) - 1) |-> history_line(recent_messages[i])]

\* "\n".join(lines)
RECURSIVE join_lines(_)
join_lines(lines) ==
    IF lines = <<>> THEN <<>>
    ELSE IF Len(lines) = 1 THEN lines[1]
    ELSE lines[1] \o <<"\n">> \o join_lines(Tail(lines))

\* "This is the start of our conversation."
HistoryStart ==
    <<"T","h","i","s"," ","i","s"," ","t","h","e"," ","s","t","a","r","t"," ","o","f"," ","o","u","r"," ","c","o","n","v","e","r","s","a","t","i","o","n",".">>

\* history_context of the prompt.
history_context(conversation) ==
    IF history(conversation) # <<>> THEN join_lines(history(conversation))
    ELSE HistoryStart

\* The content of the i-th message of a log made for the prompt: "m1", "m2", ...
LogDigits == <<"1","2","3","4","5","6","7","8","9","0">>

\* A log of n alternating messages that ends with the bot's, with contents
\* that name their position.
LogOf(n) ==
    [i \in 1..n |->
        Message(<<"m", LogDigits[((i - 1) % 10) + 1]>>,
                IF (n - i) % 2 = 0 THEN "bot" ELSE "user")]

\* A conversation with a topic and a log of 0..MaxLog messages, held by the
\* caller; a real provider is the collaborator.
InitPrompt ==
    /\ llm_service = "real"
    /\ topic_service = TRUE
    /\ \E topic \in HeuristicTopics, n \in 0..MaxLog :
          objs = (1 :> [Conversation(1, topic) EXCEPT !.messages = LogOf(n)])
    /\ repo = {}
    /\ response_index = 0
    /\ calls = {}
    /\ ret = NoRet
    /\ ncalls = 0
    /\ redis = EmptyDict

\* The history part of the prompt _generate_ai_response builds, on the
\* conversation with the user message appended (as execute does before).
\* Once per behaviour: the prompt depends on nothing an earlier one left.
BuildPrompt(u, user_message) ==
    /\ ncalls = 0
    /\ ncalls' = 1
    /\ u \in DOMAIN objs
    /\ has_topic(objs[u])
    /\ LET r == add_message(objs[u], Message(user_message, "user"))
       IN  /\ ~r.raised
           /\ ret' = [NoRet EXCEPT
                        !.op = "prompt", !.status = "ok", !.uuid = u,
                        !.role = "user", !.message = user_message,
                        !.before = objs[u].messages,
                        !.result = [history |-> history(r.conv),
                                    history_context |-> history_context(r.conv)]]
    /\ UNCHANGED <<redis, llm_service, topic_service, objs, repo, response_index,
                   calls>>

NextPrompt ==
    \E u \in DOMAIN objs, user_message \in HeuristicMessages :
        BuildPrompt(u, user_message)

\* The prompt's history alone, on logs of every length up to MaxLog.
SpecPrompt == InitPrompt /\ [][NextPrompt]_vars
\* ------------------------------------------------------------ greeting classifier
\* The calls a behaviour of the classifier's specification makes.
GreetingCalls == MaxCalls - 1

\* start with one of the messages; the stand-in answers at once.
StartGreeting ==
    /\ ncalls < GreetingCalls
    /\ \E m \in GreetingMessages : StartConversation(m, "none")

\* continue with one of the messages on a stored conversation.
ContinueGreeting ==
    /\ ncalls < GreetingCalls
    /\ \E id \in ConversationIds, m \in GreetingMessages :
          ContinueConversation(id, m, "none")

NextGreeting == StartGreeting \/ ContinueGreeting

\* start and continue with the stand-in on messages that meet each rule of
\* the classifier.
SpecGreeting == InitTransport /\ [][NextGreeting]_vars
\* ------------------------------------------------------------ topic construction
\* Arguments a caller may pass to DebateTopic.create.
TopicTitles == {<<>>, <<" ">>, <<" ","T","a","x"," ">>, <<"T","a","x">>}

TopicDescriptions == {<<>>, <<" "," ">>, <<"D","u","e"," ">>}

TopicStances == {"for", "against"}

TopicArguments ==
    {<<>>,
     << <<>> >>,
     << <<"a">> >>,
     << <<"a">>, <<"b">> >>,
     << <<"a">>, <<" ">> >>}

\* DebateTopic.create(title, description, bot_stance, key_arguments): the
\* topic, or ValueError. Once per behaviour: the constructor reads no state.
CreateTopic(title, description, bot_stance, key_arguments) ==
    /\ ncalls = 0
    /\ ncalls' = 1
    /\ LET raises == DebateTopicRaises(title, description, key_arguments)
       IN  ret' = [NoRet EXCEPT
                     !.op = "create_topic",
                     !.status = IF raises THEN "ValueError" ELSE "ok",
                     !.error = IF raises THEN "validation" ELSE "none",
                     !.message = title,
                     !.result =
                        [description |-> description,
                         bot_stance |-> bot_stance,
                         key_arguments |-> key_arguments,
                         topic |-> IF raises THEN None
                                   ELSE DebateTopicCreate(title, description,
                                            bot_stance, key_arguments)]]
    /\ UNCHANGED <<redis, llm_service, topic_service, objs, repo, response_index,
                   calls>>

NextTopic ==
    \E title \in TopicTitles, description \in TopicDescriptions,
       bot_stance \in TopicStances, key_arguments \in TopicArguments :
        CreateTopic(title, description, bot_stance, key_arguments)

\* The constructor alone, on every combination of the arguments.
SpecTopic == InitTransport /\ [][NextTopic]_vars
\* ------------------------------------------------------------ properties
\* No two adjacent messages have the same role.
Alternates(messages) ==
    \A i \in 1..(Len(messages) - 1) : messages[i].role # messages[i + 1].role

\* t is s without its leading and trailing whitespace (s not all whitespace).
IsTrimOf(t, s) ==
    \E a, b \in 1..Len(s) :
        /\ s[a] \notin Whitespace
        /\ s[b] \notin Whitespace
        /\ \A i \in 1..(a - 1) : s[i] \in Whitespace
        /\ \A i \in (b + 1)..Len(s) : s[i] \in Whitespace
        /\ t = SubSeq(s, a, b)

\* s is empty or whitespace only.
AllWhitespace(s) == \A i \in 1..Len(s) : s[i] \in Whitespace

Last(messages) == messages[Len(messages)]

\* The last step is a use-case call that returned a conversation.
TurnDone == ret.op \in {"start", "continue"} /\ ret.status = "ok"

\* C1: in every conversation that start, continue and add_message can reach,
\* no two adjacent messages of the log have the same role, at every point in
\* time (also while a call is suspended, and after a call failed).
C1_Alternation == \A u \in DOMAIN objs : Alternates(objs[u].messages)

\* A caller's add_message lengthened the log of a conversation start stored.
C1_Witness ==
    /\ ret.op = "add_message"
    /\ ret.status = "ok"
    /\ ret.uuid \in repo
    /\ Len(objs[ret.uuid].messages) >= 3

\* C2: for every initial message that is not empty or whitespace only, a
\* start call that runs to its end (its task is not cancelled) returns a
\* conversation with exactly two messages: the first of role user whose
\* content is the trimmed input, the second of role bot.
C2_StartReturnsTwoMessages ==
    /\ ret.op = "start"
    /\ ret.status # "awaiting"
    /\ ret.llm # "cancelled"
    /\ ~AllWhitespace(ret.message)
    => /\ ret.status = "ok"
       /\ ret.uuid \in repo
       /\ LET messages == objs[ret.uuid].messages
          IN  /\ Len(messages) = 2
              /\ messages[1].role = "user"
              /\ IsTrimOf(messages[1].content, ret.message)
              /\ messages[2].role = "bot"

\* start returned for a message that had whitespace to trim.
C2_Witness ==
    /\ ret.op = "start"
    /\ ret.status = "ok"
    /\ Len(objs[ret.uuid].messages) = 2
    /\ objs[ret.uuid].messages[1].content # ret.message

\* C3: each successful continue call grows the log it found by exactly two
\* messages, the trimmed user message and then one bot message, leaves the
\* messages before them as they were and keeps the alternation; this holds of
\* every call of a sequence of calls on the same id, and a message submitted
\* twice is logged twice.
C3_ContinueGrowsByTwo ==
    ret.op = "continue" /\ ret.status = "ok"
    => LET log == objs[ret.uuid].messages
           n == Len(ret.before)
       IN  /\ Len(log) = n + 2
           /\ SubSeq(log, 1, n) = ret.before
           /\ log[n + 1].role = "user"
           /\ IsTrimOf(log[n + 1].content, ret.message)
           /\ log[n + 2].role = "bot"
           /\ Alternates(log)

\* The second of two continue calls on one id returned, and it submitted the
\* message the first one had submitted.
C3_Witness ==
    /\ ret.op = "continue"
    /\ ret.status = "ok"
    /\ Len(ret.before) = 4
    /\ Len(objs[ret.uuid].messages) = 6
    /\ objs[ret.uuid].messages[5] = ret.before[3]

\* C4: a continue call fails with the "empty message" validation error when
\* the message is empty or whitespace only, otherwise with "invalid format"
\* when the id is malformed, otherwise with "not found" when the id is well
\* formed and the repository holds nothing under it; none of the three
\* changes a conversation or the repository.
C4_ContinueValidation ==
    [][ncalls' # ncalls /\ ret'.op = "continue"
        => LET id == ret'.conversation_id
               m == ret'.message
               Fails(error) ==
                   /\ ret'.status = "ValueError"
                   /\ ret'.error = error
                   /\ objs' = objs
                   /\ repo' = repo
           IN  /\ AllWhitespace(m) => Fails("empty_message")
               /\ ~AllWhitespace(m) /\ id.form = "malformed"
                    => Fails("invalid_format")
               /\ ~AllWhitespace(m) /\ id.form = "canonical"
                       /\ id.uuid \notin repo
                    => Fails("not_found")]_vars

\* continue was called with an unknown id while the repository held
\* conversations.
C4_Witness ==
    /\ ret.op = "continue"
    /\ ret.error = "not_found"
    /\ ret.conversation_id.form = "canonical"
    /\ repo # {}

\* C5: add_message of a message whose role is the role of the last message
\* fails with a validation error and leaves the log as it was; any other
\* add_message appends the message; and the add_message of the other role
\* that follows a rejected one is accepted.
C5_SameRoleRejected ==
    /\ [](ret.op = "add_message"
          => LET log == objs[ret.uuid].messages
                 n == Len(ret.before)
             IN  IF n > 0 /\ ret.before[n].role = ret.role
                 THEN ret.status = "ValueError" /\ log = ret.before
                 ELSE /\ ret.status = "ok"
                      /\ Len(log) = n + 1
                      /\ SubSeq(log, 1, n) = ret.before
                      /\ log[n + 1].role = ret.role
                      /\ IsTrimOf(log[n + 1].content, ret.message))
    /\ [][/\ ret.op = "add_message"
          /\ ret.status = "ValueError"
          /\ ncalls' # ncalls
          /\ ret'.op = "add_message"
          /\ ret'.uuid = ret.uuid
          /\ ret'.role # ret.role
          => ret'.status = "ok"]_vars

\* add_message refused a second message of the last message's role.
C5_Witness ==
    /\ ret.op = "add_message"
    /\ ret.status = "ValueError"
    /\ Len(ret.before) >= 2
    /\ objs[ret.uuid].messages = ret.before

\* C6: when the LLM call a continue call makes is cancelled or times out, the
\* call still returns a reply (as it does when the LLM fails), and the
\* conversation, which is the object the repository holds, does not end with
\* the new user message.
C6_CancelTreatedAsFailure ==
    ret.op = "continue" /\ ret.llm \in {"timeout", "cancelled"}
    => /\ ret.status = "ok"
       /\ Last(objs[ret.uuid].messages).role = "bot"

\* The reply's chat completion timed out, the exception left continue, and
\* the stored conversation ends with the user message.
C6_HalfApplied ==
    /\ ret.op = "continue"
    /\ ret.llm = "timeout"
    /\ ret.status = "APITimeoutError"
    /\ ret.uuid \in repo
    /\ Last(objs[ret.uuid].messages).role = "user"
    /\ Len(objs[ret.uuid].messages) = Len(ret.before) + 1

\* C7: once a conversation has a topic, no step changes it: the topic after
\* any sequence of continue calls is the topic first assigned.
C7_TopicNeverChanges ==
    [][\A u \in DOMAIN objs :
          objs[u].topic # None => objs'[u].topic = objs[u].topic]_vars

\* continue returned on a conversation that had a topic, for a message the
\* topic service would pick a topic for.
C7_Witness ==
    /\ ret.op = "continue"
    /\ ret.status = "ok"
    /\ ret.had_topic
    /\ ~greeting_of[ret.message]
    /\ Len(ret.before) = 4

\* C8: with a topic service configured, a stored conversation whose last turn
\* is complete has a topic exactly when one of its user messages is not a
\* greeting; and the turn that finds no topic assigns one exactly when its
\* user message is not a greeting.
C8_TopicOnFirstNonGreeting ==
    /\ topic_service
       => \A u \in repo :
              LET log == objs[u].messages
              IN  Last(log).role = "bot"
                  => (objs[u].topic # None
                        <=> \E i \in 1..Len(log) :
                               /\ log[i].role = "user"
                               /\ ~greeting_of[log[i].content])
    /\ TurnDone /\ ~ret.had_topic /\ (ret.op = "start" \/ topic_service)
       => (objs[ret.uuid].topic # None <=> ~greeting_of[ret.message])

\* The topic was assigned on the third turn, after two greetings.
C8_Witness ==
    /\ topic_service
    /\ ret.op = "continue"
    /\ ret.status = "ok"
    /\ ~ret.had_topic
    /\ objs[ret.uuid].topic # None
    /\ Len(ret.before) = 4

\* C9: when the user message of a turn on a conversation without topic is a
\* greeting, the bot message of that turn is the one fixed redirect line,
\* which asks for a topic the user has strong opinions about, and the
\* conversation still has no topic after the turn.
C9_GreetingRedirect ==
    TurnDone /\ ~ret.had_topic /\ greeting_of[ret.message]
    => /\ Last(objs[ret.uuid].messages) =
              [content |-> StartRedirect, role |-> "bot"]
       /\ Contains(StartRedirect,
                   <<"s","t","r","o","n","g"," ","o","p","i","n","i","o","n","s",
                     " ","a","b","o","u","t">>)
       /\ objs[ret.uuid].topic = None

\* continue answered a greeting on a conversation without topic.
C9_Witness ==
    /\ topic_service
    /\ ret.op = "continue"
    /\ ret.status = "ok"
    /\ ~ret.had_topic
    /\ greeting_of[ret.message]

\* C10: in the turn, start or continue, that assigns the topic, the bot
\* message appended by that turn contains the topic's first key argument
\* verbatim.
C10_FirstArgumentVerbatim ==
    TurnDone /\ ~ret.had_topic /\ objs[ret.uuid].topic # None
    => LET last == Last(objs[ret.uuid].messages)
       IN  /\ last.role = "bot"
           /\ Contains(last.content, objs[ret.uuid].topic.key_arguments[1])

\* continue assigned the topic the provider generated.
C10_Witness ==
    /\ ret.op = "continue"
    /\ ret.status = "ok"
    /\ ~ret.had_topic
    /\ ret.llm = "answer"
    /\ objs[ret.uuid].topic # None

\* The last step is a use-case call that got as far as asking the topic
\* service about a message that is no greeting, and was not cancelled.
TopicAsked ==
    /\ ret.op \in {"start", "continue"}
    /\ ret.status # "awaiting"
    /\ ret.error \notin {"empty_message", "invalid_format", "not_found",
                         "consecutive"}
    /\ ret.llm # "cancelled"
    /\ ~ret.had_topic
    /\ ret.op = "start" \/ topic_service
    /\ ~greeting_of[ret.message]

IsFallback(topic) ==
    "is_fallback" \in DOMAIN topic.metadata /\ topic.metadata.is_fallback

\* C11: a failure of the LLM collaborator during topic selection does not
\* leave generate_topic_for_message: for every message that is no greeting
\* the call gets a topic, and the topic is a predefined fallback topic
\* (metadata is_fallback) whenever the AI call failed (a timeout or API error,
\* an unusable answer) or no LLM is configured.
C11_TopicFailureSwallowed ==
    TopicAsked
    => /\ ret.status = "ok"
       /\ objs[ret.uuid].topic # None
       /\ llm_service = "none" \/ ret.llm \in {"timeout", "unusable"}
          => IsFallback(objs[ret.uuid].topic)

\* The provider's answer was unusable and the call got a fallback topic.
C11_Witness ==
    /\ ret.op \in {"start", "continue"}
    /\ ret.llm = "unusable"
    /\ ret.status = "ok"
    /\ IsFallback(objs[ret.uuid].topic)

\* C12: within one generate_topic_for_message call the collaborator's
\* generate_debate_topic is invoked at most once, a failed call being followed
\* by the fallback and not by another call, and not at all for a greeting: no
\* call waits for the provider about a greeting, a call whose provider call
\* ended is not suspended again, and a step advances the stand-in's call
\* count by at most one and not at all for a greeting.
C12_AtMostOneTopicCall ==
    /\ [](\A c \in calls :
             c.pc = "await_topic" => ~greeting_of[c.user_message])
    /\ [][/\ \A c \in calls \ calls' : \A d \in calls' : d.n # c.n
          /\ response_index' \in {response_index, response_index + 1}
          /\ ncalls' # ncalls /\ greeting_of[ret'.message]
             => response_index' = response_index]_vars

\* The provider call timed out and the call fell back at once.
C12_Witness ==
    /\ ret.op \in {"start", "continue"}
    /\ ret.llm = "timeout"
    /\ ret.status = "ok"
    /\ ~ret.had_topic
    /\ IsFallback(objs[ret.uuid].topic)
    /\ calls = {}

C14_StrategyByCollaborator ==
    /\ [](ret.op = "continue" /\ ret.had_topic /\ ret.status = "ok"
          => LET conv == objs[ret.uuid]
                 reply == Last(conv.messages).content
                 asked == [conv EXCEPT !.messages = SubSeq(@, 1, Len(@) - 1)]
             IN  CASE llm_service = "none" ->
                        /\ ret.llm = "none"
                        /\ reply \in template_responses(conv.topic)
                   [] llm_service = "mock" ->
                        /\ ret.llm = "none"
                        /\ reply \in enhanced_mock_responses(asked, ret.message,
                                                            conv.topic)
                   [] llm_service = "real" ->
                        ret.llm \in {"answer", "llm_error"})
    /\ [](\A c \in calls : c.pc = "await_reply" => llm_service = "real")
    /\ [][\A c \in calls \ calls' :
             c.pc = "await_reply" => \A d \in calls' : d.n # c.n]_vars

\* The stand-in answered a turn on a conversation with a topic.
C14_Witness ==
    /\ llm_service = "mock"
    /\ ret.op = "continue"
    /\ ret.had_topic
    /\ ret.status = "ok"

\* C16: after every successful start or continue call, get_by_id on the id of
\* the returned conversation yields a conversation with that id and the
\* message log of the returned one (the log the call found and its two
\* messages): save put it under that id, over what was there.
C16_SavedIsReturned ==
    TurnDone
    => LET found == get_by_id(ret.uuid)
       IN  /\ found # None
           /\ found.conversation_id = ret.uuid
           /\ found.messages = objs[ret.uuid].messages
           /\ Len(found.messages) = Len(ret.before) + 2
           /\ SubSeq(found.messages, 1, Len(ret.before)) = ret.before

\* continue returned a conversation that was stored before the call.
C16_Witness ==
    /\ ret.op = "continue"
    /\ ret.status = "ok"
    /\ Len(ret.before) = 2
    /\ ret.uuid \in repo

\* C15: for every topic and every draw of random.choice, what the template
\* strategy returns contains one of the topic's key arguments as an exact
\* substring and contains a "?".
C15_TemplateHasArgumentAndQuestion ==
    ret.op = "template_response"
    => /\ \E i \in 1..Len(objs[ret.uuid].topic.key_arguments) :
             Contains(ret.message, objs[ret.uuid].topic.key_arguments[i])
       /\ Contains(ret.message, <<"?">>)

\* A template that does not name the topic was drawn for a fallback topic.
C15_Witness ==
    /\ ret.op = "template_response"
    /\ IsFallback(objs[ret.uuid].topic)
    /\ ~Contains(ret.message, lower(objs[ret.uuid].topic.title))


\* C17: when the repository raises its storage error under start or continue
\* (at get_by_id or at save), the call ends with that error, which is no
\* validation error; the refused operation is not tried again (a second try
\* would succeed and the call would return), and the step stores nothing
\* anywhere: the repository's keys are what they were.
C17_StorageErrorSurfaced ==
    [][ret'.fault # "none"
         => /\ ret'.status = "RepositoryError"
            /\ ret'.status # "ValueError"
            /\ ret'.error = ret'.fault
            /\ repo' = repo
            /\ calls' \subseteq calls]_vars

C17_Witness ==
    /\ ret.op = "continue" /\ ret.fault = "save"
    /\ ret.status = "RepositoryError"
    /\ ret.uuid \in repo
    /\ Len(objs[ret.uuid].messages) = Len(ret.before) + 2

C17_WitnessGet ==
    /\ ret.op = "continue" /\ ret.fault = "get_by_id"
    /\ ret.conversation_id.form = "canonical"
    /\ ret.conversation_id.uuid \in repo

\* What reading conversation_id back through a repository gives in the
\* current state.
ReadBack(store, conversation_id) ==
    IF store = "memory"
    THEN [raised |-> FALSE, conversation |-> get_by_id(conversation_id)]
    ELSE redis_get_by_id(redis, conversation_id)

SameLog(a, b) ==
    /\ Len(a) = Len(b)
    /\ \A i \in 1..Len(a) : a[i].role = b[i].role /\ a[i].content = b[i].content

\* C18: a conversation with a topic and at least one message that is saved
\* through a repository (in-memory or Redis) and read back by its id comes
\* back with the same roles and contents in the same order and with the same
\* topic title and bot_stance.
C18_RoundTrip ==
    (ret.op = "save" /\ ret.had_topic /\ ret.before # <<>>)
    => /\ ret.status = "ok"
       /\ LET saved == objs[ret.uuid]
              read == ReadBack(ret.store, ret.uuid)
          IN  /\ ~read.raised
              /\ read.conversation # None
              /\ SameLog(read.conversation.messages, saved.messages)
              /\ read.conversation.topic # None
              /\ read.conversation.topic.title = saved.topic.title
              /\ read.conversation.topic.bot_stance = saved.topic.bot_stance

\* The Redis repository refuses the save.
C18_RedisSaveRaises ==
    /\ ret.op = "save" /\ ret.store = "redis"
    /\ ret.had_topic /\ ret.before # <<>>
    /\ ret.status = "RepositoryError"
    /\ ReadBack("redis", ret.uuid).conversation = None

\* The in-memory repository returns the saved object.
C18_MemoryRoundTrip ==
    (ret.op = "save" /\ ret.store = "memory")
    => ReadBack("memory", ret.uuid).conversation = objs[ret.uuid]

\* The Redis repository stores a conversation with a topic and no message,
\* and cannot read it back.
C18_RedisReadRaises ==
    /\ ret.op = "get_by_id" /\ ret.store = "redis"
    /\ ret.uuid \in DOMAIN redis
    /\ ret.status = "RepositoryError"

Stored(store, conversation_id) ==
    IF store = "memory" THEN conversation_id \in repo
    ELSE conversation_id \in DOMAIN redis

\* C19: delete(id) returns true exactly when a conversation was stored under
\* id just before the call; after it nothing is stored under id (exists is
\* false, get_by_id is None), and an exists, get_by_id or delete of the same
\* id that follows returns false, None and false.
C19_DeleteExists ==
    /\ [][ret'.op = "delete"
            => /\ ret'.status = "ok"
               /\ ret'.result = Stored(ret'.store, ret'.uuid)
               /\ IF ret'.store = "memory"
                  THEN ret'.uuid \notin repo'
                  ELSE ret'.uuid \notin DOMAIN redis']_vars
    /\ [](ret.op = "delete"
            => /\ ~Stored(ret.store, ret.uuid)
               /\ ~ReadBack(ret.store, ret.uuid).raised
               /\ ReadBack(ret.store, ret.uuid).conversation = None)
    /\ [][(ret.op = "delete" /\ ret'.store = ret.store
              /\ ret'.uuid = ret.uuid)
            => /\ ret'.op = "exists" => ret'.result = FALSE
               /\ ret'.op = "get_by_id"
                    => ret'.status = "ok" /\ ret'.result = None
               /\ ret'.op = "delete" => ret'.result = FALSE]_vars

C19_Witness ==
    /\ ret.op = "delete" /\ ret.store = "memory"
    /\ ret.result = TRUE
    /\ ret.uuid \in DOMAIN objs
    /\ ncalls = 2

C19_WitnessSecond ==
    /\ ret.op = "delete" /\ ret.store = "memory"
    /\ ret.result = FALSE
    /\ ret.uuid \in DOMAIN objs
    /\ ncalls = 3

\* C20: two continue calls on one conversation id that overlap on a
\* repository returning independent copies (the Redis one) both complete:
\* a call that found the conversation and got its reply returns, and the
\* repository then holds the log that call wrote (the later save wins), which
\* alternates.
C20_BothCompleteLastWriteWins ==
    (/\ ret.op = "continue" /\ ret.store = "redis"
     /\ ret.result # None
     /\ ret.status \notin {"awaiting", "ValueError", "CancelledError",
                           "APITimeoutError"})
    => /\ ret.status = "ok"
       /\ LET read == ReadBack("redis", ret.uuid)
          IN  /\ ~read.raised
              /\ read.conversation # None
              /\ SameLog(read.conversation.messages, ret.result.conv.messages)
              /\ Alternates(read.conversation.messages)

\* A continue call ran to its save while another call on the same
\* conversation was suspended at the provider: it built a log of two messages
\* on its own copy, the save was refused, and the repository holds the empty
\* conversation the caller saved.
C20_BothRefused ==
    /\ ret.op = "continue" /\ ret.store = "redis"
    /\ ret.result # None
    /\ \E c \in calls : c.uuid = ret.uuid /\ c.n < ret.result.n
    /\ ret.status = "RepositoryError" /\ ret.error = "save"
    /\ Len(ret.result.conv.messages) = 2
    /\ ret.uuid \in DOMAIN redis
    /\ redis[ret.uuid].messages = <<>>

\* The request names a conversation the repository holds, or none (a start).
Servable ==
    /\ ret.op = "request"
    /\ ~IsBlank(ret.message)
    /\ \/ ret.conversation_id = NoId
       \/ /\ ret.conversation_id.form = "canonical"
          /\ ret.conversation_id.uuid \in repo

\* C21: the response to a start or continue request carries the last
\* min(n, 5) messages of the conversation's n messages, in their order.
C21_ResponseCarriesRecent ==
    Servable
    => /\ ret.status = "200"
       /\ LET conversation == objs[ret.result.conversation_id]
              recent == get_recent_messages(conversation, RecentLimit)
          IN  /\ Len(ret.result.messages) = Len(recent)
              /\ \A i \in 1..Len(recent) :
                    /\ ret.result.messages[i].role = recent[i].role
                    /\ ret.result.messages[i].message = recent[i].content

\* A continue request on a stored conversation is answered 500, and the
\* conversation is as it was.
C21_ContinueRequestFails ==
    /\ Servable /\ ret.conversation_id # NoId
    /\ ret.status = "500"
    /\ Len(objs[ret.conversation_id.uuid].messages) = 2

\* What get_recent_messages itself returns: the last min(n, 5) messages.
C21_RecentIsSuffix ==
    \A u \in DOMAIN objs :
        LET log == objs[u].messages
            recent == get_recent_messages(objs[u], RecentLimit)
            k == IF Len(log) < RecentLimit THEN Len(log) ELSE RecentLimit
        IN  /\ Len(recent) = k
            /\ \A i \in 1..k : recent[i] = log[Len(log) - k + i]

\* C22: a request whose conversation id is malformed or unknown is answered
\* 400; every other failure inside the handler is answered 500.
C22_InvalidIdIsClientError ==
    (/\ ret.op = "request"
     /\ ~IsBlank(ret.message)
     /\ ret.conversation_id # NoId
     /\ \/ ret.conversation_id.form # "canonical"
        \/ ret.conversation_id.uuid \notin repo)
    => ret.status = "400"

\* A malformed id is answered 500.
C22_MalformedIdServerError ==
    /\ ret.op = "request"
    /\ ~IsBlank(ret.message)
    /\ ret.conversation_id = MalformedId
    /\ ret.status = "500"

\* C23: a 500 response carries the generic message only, nothing of the
\* exception behind it.
C23_NoInternalDetail ==
    (ret.op = "request" /\ ret.status = "500")
    => ret.result.detail = <<InternalServerError>>

\* The response shows the exception's text.
C23_ExceptionTextShown ==
    /\ ret.op = "request" /\ ret.status = "500"
    /\ Len(ret.result.detail) = 2
    /\ ret.result.detail[2] = CoroutineAttributeError

\* C24: start with an empty or whitespace-only initial message raises the
\* validation error and does nothing else: no conversation is created, none
\* changes, nothing is saved and no collaborator is called.
C24_BlankStartRejected ==
    [][(ret'.op = "start" /\ AllWhitespace(ret'.message))
         => /\ ret'.status = "ValueError"
            /\ ret'.error = "empty_message"
            /\ objs' = objs
            /\ repo' = repo
            /\ calls' = calls
            /\ response_index' = response_index]_vars

C24_Witness ==
    /\ ret.op = "start" /\ ret.status = "ValueError"
    /\ ret.message = MsgSpaces
    /\ repo # {}

\* C25: no start or continue step removes a conversation from the
\* repository: the stored ids only grow under them, and a step under which
\* an id disappears is a delete of the repository.
C25_OnlyDeleteRemoves ==
    /\ [][ret'.op \in {"start", "continue"} => repo \subseteq repo']_vars
    /\ [][~(repo \subseteq repo')
            => ret'.op = "delete" /\ repo' = repo \ {ret'.uuid}]_vars

\* A second conversation is started after the first was deleted.
C25_Witness ==
    /\ ret.op = "start" /\ ret.status = "ok"
    /\ 1 \in DOMAIN objs /\ 1 \notin repo
    /\ repo = {2}

\* A continue on one conversation with another one stored.
C25_WitnessContinue ==
    /\ ret.op = "continue" /\ ret.status = "ok"
    /\ Cardinality(repo) = 2

IsPrefix(s, t) == Len(s) <= Len(t) /\ \A i \in 1..Len(s) : s[i] = t[i]

\* C26: the log only grows at its end: under every step (add_message, start,
\* continue) each conversation's previous log is a prefix of its new log, and
\* a change made to a list that get_messages or get_recent_messages returned
\* leaves every conversation as it was.
C26_AppendOnly ==
    /\ [][\A u \in DOMAIN objs :
             IsPrefix(objs[u].messages, objs'[u].messages)]_vars
    /\ [][ret'.op = "modify_list" => objs' = objs]_vars

\* A returned list was changed and differs from the log it came from.
C26_Witness ==
    /\ ret.op = "modify_list"
    /\ ret.message = <<"append">>
    /\ Len(objs[ret.uuid].messages) = 2
    /\ Len(ret.result.items) = 3

\* C27: a fallback topic's title is one of the six intro phrases, a space and
\* the lowercased title of a predefined topic; its metadata says is_fallback
\* and holds that predefined title as stored.
C27_FallbackTitleAndMetadata ==
    ret.op = "fallback_topic"
    => LET topic == ret.result.topic
       IN  /\ IsFallback(topic)
           /\ \E t \in 1..Len(conspiracy_topics) :
                 /\ topic.metadata.original_title = conspiracy_topics[t].title
                 /\ \E i \in 1..Len(fallback_intros) :
                       /\ startswith(topic.title, fallback_intros[i])
                       /\ topic.title
                            = fallback_intros[i] \o <<" ">>
                                \o lower(topic.metadata.original_title)

\* A fallback topic whose base title has capitals.
C27_Witness ==
    /\ ret.op = "fallback_topic"
    /\ ret.result.topic.metadata.original_title = MoonLandingTitle
    /\ startswith(ret.result.topic.title, fallback_intros[6])
    /\ lower(MoonLandingTitle) # MoonLandingTitle

\* C28: selecting fallback topics leaves the predefined topics as they are
\* (title, metadata, key arguments), and so does changing the argument list
\* of a topic that was returned.
C28_BaseTopicsUntouched ==
    ret.op \in {"fallback_topic", "edit_arguments"}
    => /\ ret.result.fallback_topics = conspiracy_topics
       /\ \A t \in 1..Len(conspiracy_topics) :
             /\ "is_fallback" \notin DOMAIN ret.result.fallback_topics[t].metadata
             /\ ret.result.fallback_topics[t].title # ret.result.topic.title

\* The returned topic's arguments were changed after a second selection.
C28_Witness ==
    /\ ret.op = "edit_arguments"
    /\ ncalls = 3
    /\ ret.result.topic.key_arguments
         # ret.result.fallback_topics[ret.uuid].key_arguments

\* The reply of the last continue call, and the conversation it answered
\* (the log without that reply).
Reply == Last(objs[ret.uuid].messages).content

Asked == [objs[ret.uuid] EXCEPT !.messages = SubSeq(@, 1, Len(@) - 1)]

\* C29: when the chat completion of a continue turn on a conversation with a
\* topic fails with an LLM error, the reply the turn appends is made by the
\* heuristic strategy (opener, argument, closing question): the template
\* strategy comes after it.
C29_HeuristicBeforeTemplate ==
    ret.op = "continue" /\ ret.had_topic /\ ret.llm = "llm_error"
        /\ ret.status = "ok"
    => Reply \in enhanced_mock_responses(Asked, ret.message, objs[ret.uuid].topic)

\* The turn whose completion failed with an LLM error answered with a
\* template, which is no heuristic reply.
C29_TemplateDirectly ==
    /\ ret.op = "continue" /\ ret.had_topic /\ ret.llm = "llm_error"
    /\ ret.status = "ok"
    /\ Reply \in template_responses(objs[ret.uuid].topic)
    /\ \A s \in 1..Len(early_starters) : ~startswith(Reply, early_starters[s])
    /\ \A s \in 1..Len(deep_starters) : ~startswith(Reply, deep_starters[s])

\* After an LLM error the reply is always a template.
C29_AlwaysTemplate ==
    ret.op = "continue" /\ ret.had_topic /\ ret.llm = "llm_error"
        /\ ret.status = "ok"
    => Reply \in template_responses(objs[ret.uuid].topic)

\* The reply opens with one of the given openers.
OpensWith(reply, starters) ==
    \E s \in 1..Len(starters) : startswith(reply, starters[s] \o <<" ">>)

\* The last step is a continue turn the heuristic strategy answered.
HeuristicTurn ==
    /\ llm_service = "mock"
    /\ ret.op = "continue" /\ ret.had_topic /\ ret.status = "ok"

\* C30: the heuristic reply opens by depth: with at most 2 messages before
\* the newest user message, with one of the 3 early openers; with more, with
\* one of the 4 deep openers.
C30_OpenerByPriorMessages ==
    HeuristicTurn
    => /\ Len(early_starters) = 3 /\ Len(deep_starters) = 4
       /\ IF Len(ret.before) <= 2
          THEN OpensWith(Reply, early_starters)
          ELSE OpensWith(Reply, deep_starters)

\* The turn right after start (two messages before the user's) opened with a
\* deep opener and with no early one.
C30_DeepAfterStart ==
    /\ HeuristicTurn
    /\ Len(ret.before) = 2
    /\ OpensWith(Reply, deep_starters)
    /\ ~OpensWith(Reply, early_starters)

\* What the code does: the count that is compared with 2 is that of the
\* recent messages, the newest user message among them.
C30_OpenerByRecentCount ==
    HeuristicTurn
    => IF Len(get_recent_messages(Asked, RecentLimit)) <= 2
       THEN OpensWith(Reply, early_starters)
       ELSE OpensWith(Reply, deep_starters)

\* How many of the first three keywords of an argument occur in the
\* lowercased user message.
Overlap(arg, user_message) ==
    LET arg_keywords == split(lower(arg))
    IN  Cardinality({k \in 1..Len(arg_keywords) :
            k <= 3 /\ Contains(lower(user_message), arg_keywords[k])})

\* The arguments of the topic that the reply of the last step embeds.
Embedded ==
    LET arguments == objs[ret.uuid].topic.key_arguments
    IN  {i \in 1..Len(arguments) : Contains(ret.result, arguments[i])}

\* C31: the heuristic reply embeds exactly one key argument of the topic;
\* when some argument's leading keywords overlap the lowercased user message,
\* it is an argument with the best overlap (no argument overlaps more).
C31_BestOverlapEmbedded ==
    ret.op = "enhanced_mock_response"
    => LET arguments == objs[ret.uuid].topic.key_arguments
       IN  /\ Cardinality(Embedded) = 1
           /\ \A i \in Embedded : \A j \in 1..Len(arguments) :
                  Overlap(arguments[j], ret.message)
                      <= Overlap(arguments[i], ret.message)

\* The reply embeds an argument that overlaps the message with one keyword
\* while another argument of the topic overlaps it with two.
C31_LesserOverlapChosen ==
    /\ ret.op = "enhanced_mock_response"
    /\ LET arguments == objs[ret.uuid].topic.key_arguments
       IN  \E i \in Embedded : \E j \in 1..Len(arguments) :
               /\ Overlap(arguments[i], ret.message) = 1
               /\ Overlap(arguments[j], ret.message) = 2

\* What the code does: exactly one argument is embedded; it overlaps the
\* message whenever some argument does.
C31_SomeOverlapEmbedded ==
    ret.op = "enhanced_mock_response"
    => LET arguments == objs[ret.uuid].topic.key_arguments
       IN  /\ Cardinality(Embedded) = 1
           /\ \A i \in Embedded :
                  (\E j \in 1..Len(arguments) :
                       Overlap(arguments[j], ret.message) > 0)
                  => Overlap(arguments[i], ret.message) > 0

\* The last n messages of a log (all of it if it is shorter).
LastOf(log, n) ==
    IF Len(log) <= n THEN log ELSE SubSeq(log, Len(log) - n + 1, Len(log))

\* The lines of the given messages.
LinesOf(messages) == [i \in 1..Len(messages) |-> history_line(messages[i])]

\* C32: the history of the prompt is made of the messages right before the
\* newest user message, in order, up to the last 6 of them, and has no line
\* for the newest user message.
C32_HistoryLastSixBefore ==
    ret.op = "prompt"
    => /\ ret.result.history = LinesOf(LastOf(ret.before, 6))
       /\ \A i \in 1..Len(ret.result.history) :
              ret.result.history[i] # history_line(Message(ret.message, "user"))

\* The log had 6 messages before the user's, and the history has 5 lines:
\* the oldest of the six is missing.
C32_FiveOfSix ==
    /\ ret.op = "prompt"
    /\ Len(ret.before) = 6
    /\ Len(ret.result.history) = 5
    /\ ret.result.history = LinesOf(SubSeq(ret.before, 2, 6))
    /\ ret.result.history_context = join_lines(ret.result.history)

\* What the code does: the history is made of the last 5 messages before the
\* newest user message, and never of that message.
C32_HistoryLastFiveBefore ==
    ret.op = "prompt"
    => /\ ret.result.history = LinesOf(LastOf(ret.before, HistoryLimit - 1))
       /\ \A i \in 1..Len(ret.result.history) :
              ret.result.history[i] # history_line(Message(ret.message, "user"))
       /\ ret.before = <<>> <=> ret.result.history_context = HistoryStart

\* The last step is a turn that classified its message: a start or continue
\* call that returned, on a conversation without a topic.
ClassifiedTurn ==
    ret.op \in {"start", "continue"} /\ ret.status = "ok" /\ ~ret.had_topic

\* The message of the last step as the classifier sees it, and its words.
Lowered == strip(lower(ret.message))

Words == split(Lowered)

\* The turn assigned no topic: with the stand-in, the message was classified
\* as a greeting.
NoTopic == objs[ret.uuid].topic = None

\* The greeting phrases that occur in the message as phrases (between word
\* boundaries), and those the message starts with.
PhrasesIn ==
    {i \in 1..Len(pure_greeting_patterns) :
        SearchWord(Lowered, pure_greeting_patterns[i])}

PhrasesAtStart ==
    {i \in 1..Len(pure_greeting_patterns) :
        startswith(Lowered, pure_greeting_patterns[i])}

\* A phrase of the message accounts for more than half of its words.
PhraseMajority ==
    \E i \in PhrasesIn : 2 * Len(split(pure_greeting_patterns[i])) > Len(Words)

\* A substantial word appears after the greeting phrase i the message starts
\* with.
SubstantialAfter(i) ==
    \E w \in 1..Len(substantial_words) :
        Contains(SubSeq(Lowered, Len(pure_greeting_patterns[i]) + 1, Len(Lowered)),
                 substantial_words[w])

\* C33: where no other rule applies (the message starts with no greeting
\* phrase and has fewer than two of them), the message is classified as a
\* greeting exactly when a greeting phrase occurs in it as a phrase and
\* accounts for more than half of its words.
C33_GreetingIffPhraseMajority ==
    ClassifiedTurn /\ PhrasesAtStart = {} /\ Cardinality(PhrasesIn) < 2
    => (NoTopic <=> PhraseMajority)

\* A one-word message in which no greeting phrase occurs as a word ("hi" is
\* inside "nothing") was classified as a greeting.
C33_SubstringGreeting ==
    /\ ClassifiedTurn
    /\ ret.message = MsgNothing
    /\ PhrasesIn = {}
    /\ NoTopic

\* The other half holds: a message with a greeting phrase that accounts for
\* more than half of its words is a greeting.
C33_PhraseMajorityIsGreeting ==
    ClassifiedTurn /\ PhraseMajority => NoTopic

C34_WitnessSubstantial ==
    /\ ClassifiedTurn
    /\ ret.message = MsgHiThink
    /\ Len(Words) = 6
    /\ ~NoTopic

\* C35: a message of more than 8 words that begins with a single greeting
\* word is not classified as a greeting: the turn assigns a topic.
C35_LongMessageGetsTopic ==
    ClassifiedTurn /\ Len(Words) > 8
        /\ (\E i \in PhrasesAtStart : Len(split(pure_greeting_patterns[i])) = 1)
    => /\ ~greeting_of[ret.message]
       /\ has_topic(objs[ret.uuid])

\* start with "hi, I think vaccines are dangerous and I want to debate this"
\* returned a conversation with a topic.
C35_Witness ==
    /\ ClassifiedTurn
    /\ ret.op = "start"
    /\ ret.message = MsgHiDebate
    /\ Len(Words) = 12
    /\ has_topic(objs[ret.uuid])

\* C36: a DebateTopic that was constructed has a non-empty trimmed title, a
\* non-empty trimmed description and a non-empty list of key arguments, each
\* a non-empty string; construction with an empty title, an empty
\* description or an empty list fails with the validation error.
C36_TopicWellFormed ==
    ret.op = "create_topic"
    => /\ ret.status = "ok"
          => LET topic == ret.result.topic
             IN  /\ topic.title # <<>> /\ strip(topic.title) = topic.title
                 /\ topic.description # <<>>
                 /\ strip(topic.description) = topic.description
                 /\ topic.key_arguments # <<>>
                 /\ \A i \in 1..Len(topic.key_arguments) :
                        /\ topic.key_arguments[i] # <<>>
                        /\ strip(topic.key_arguments[i]) # <<>>
       /\ ret.message = <<>> \/ ret.result.description = <<>>
              \/ ret.result.key_arguments = <<>>
          => ret.status = "ValueError"

\* create("Tax", "Due ", ..., [""]) returned a topic whose only argument is
\* the empty string.
C36_EmptyArgumentAccepted ==
    /\ ret.op = "create_topic"
    /\ ret.status = "ok"
    /\ ret.result.topic.key_arguments = << <<>> >>

\* What the code checks: title, description and the list, not its elements.
C36_TitleDescriptionList ==
    ret.op = "create_topic"
    => /\ ret.status = "ok"
          => LET topic == ret.result.topic
             IN  /\ topic.title # <<>> /\ strip(topic.title) = topic.title
                 /\ topic.description # <<>>
                 /\ strip(topic.description) = topic.description
                 /\ topic.key_arguments = ret.result.key_arguments
                 /\ topic.key_arguments # <<>>
       /\ AllWhitespace(ret.message) \/ AllWhitespace(ret.result.description)
              \/ ret.result.key_arguments = <<>>
          <=> ret.status = "ValueError"

\* C37: conversations are independent. A start call makes a conversation
\* under an id that no conversation has and that is not stored, and leaves
\* every other conversation as it was; every step of a continue call on A
\* leaves every other conversation B as it was: its log, its topic, and
\* whether it is stored.
C37_Independent ==
    [][/\ ret'.op = "start" /\ ret'.uuid # 0 /\ calls \subseteq calls'
          => /\ ret'.uuid \notin DOMAIN objs
             /\ ret'.uuid \notin repo
       /\ ret'.op \in {"start", "continue"}
          => \A B \in DOMAIN objs :
                 B # ret'.uuid
                 => /\ B \in DOMAIN objs'
                    /\ objs'[B] = objs[B]
                    /\ B \in repo' <=> B \in repo]_vars

\* Two conversations are stored; continue on the second returned, and the
\* first has the two messages of its start.
C37_Witness ==
    /\ ret.op = "continue" /\ ret.status = "ok"
    /\ ret.uuid = 2
    /\ {1, 2} \subseteq repo
    /\ Len(objs[1].messages) = 2
    /\ Len(objs[2].messages) = 4

\* C38: with the in-memory repository, while a continue call is suspended at
\* its LLM call the stored conversation already ends with that call's user
\* message (nothing was saved for it yet); and a second continue call on the
\* same id with a message that is not blank, made in the meantime, fails
\* with the validation error of consecutive user messages and changes
\* nothing.
C38_SecondContinueRejected ==
    /\ [](\A c \in calls :
            c.op = "continue"
            => /\ get_by_id(c.uuid) # None
               /\ Len(get_by_id(c.uuid).messages) = Len(c.before) + 1
               /\ Last(get_by_id(c.uuid).messages)
                      = Message(c.user_message, "user"))
    /\ [][/\ ret'.op = "continue"
          /\ ~AllWhitespace(ret'.message)
          /\ ret'.conversation_id.form = "canonical"
          /\ \E c \in calls :
                /\ c.op = "continue"
                /\ c.uuid = UUID(ret'.conversation_id)
                /\ c \in calls'
          => /\ ret'.status = "ValueError"
             /\ ret'.error = "consecutive"
             /\ objs' = objs /\ repo' = repo /\ calls' = calls]_vars

\* A continue call is suspended on a stored conversation whose log ends with
\* its user message, and a second continue call on that id has just failed
\* with the error of consecutive user messages.
C38_Witness ==
    /\ ret.op = "continue"
    /\ ret.status = "ValueError" /\ ret.error = "consecutive"
    /\ ret.uuid \in repo
    /\ \E c \in calls :
          /\ c.op = "continue" /\ c.uuid = ret.uuid /\ c.pc = "await_reply"
          /\ Last(objs[c.uuid].messages) = Message(c.user_message, "user")
          /\ Len(objs[c.uuid].messages) = 3

\* C39: continue checks in a fixed order: the message, then the format of
\* the id, then the repository. A blank message gives the error of the empty
\* message whatever the id (malformed, unknown or stored); a malformed id
\* with a message gives the error of the id's format; in both cases the
\* repository is not asked (its storage error, when get_by_id would raise
\* it, is not seen, and nothing changes). Only then an unknown id gives
\* "not found" or the repository's error.
C39_CheckOrder ==
    [][ret'.op = "continue"
       => /\ AllWhitespace(ret'.message)
             => /\ ret'.status = "ValueError" /\ ret'.error = "empty_message"
                /\ ret'.fault = "none"
                /\ objs' = objs /\ repo' = repo /\ calls' = calls
          /\ ~AllWhitespace(ret'.message) /\ ret'.conversation_id = MalformedId
             => /\ ret'.status = "ValueError" /\ ret'.error = "invalid_format"
                /\ ret'.fault = "none"
                /\ objs' = objs /\ repo' = repo /\ calls' = calls
          /\ /\ ~AllWhitespace(ret'.message)
             /\ ret'.conversation_id.form = "canonical"
             /\ UUID(ret'.conversation_id) \notin repo
             => \/ ret'.status = "ValueError" /\ ret'.error = "not_found"
                \/ ret'.status = "RepositoryError" /\ ret'.fault = "get_by_id"]_vars

\* continue with a blank message and a malformed id failed with the error of
\* the empty message.
C39_Witness ==
    /\ ret.op = "continue"
    /\ ret.message = MsgSpaces
    /\ ret.conversation_id = MalformedId
    /\ ret.status = "ValueError" /\ ret.error = "empty_message"

\* continue with a blank message and the id of no conversation failed with
\* the error of the empty message.
C39_WitnessUnknown ==
    /\ ret.op = "continue"
    /\ ret.message = MsgEmpty
    /\ ret.conversation_id.form = "canonical"
    /\ UUID(ret.conversation_id) \notin DOMAIN objs
    /\ ret.status = "ValueError" /\ ret.error = "empty_message"

\* continue with a message and a malformed id failed with the error of the
\* id's format.
C39_WitnessMalformed ==
    /\ ret.op = "continue"
    /\ ret.message = MsgTax
    /\ ret.conversation_id = MalformedId
    /\ ret.status = "ValueError" /\ ret.error = "invalid_format"
====
